---- MODULE Spec2Model ----
(***************************************************************************)
(* Shepherd process orchestration engine: the dependency graph, the        *)
(* per-process lifecycle (ManagedProcess), and the manager's start, stop,  *)
(* restart, monitor/retry and cascade protocols, as a state machine of     *)
(* concurrently running goroutines.                                        *)
(*                                                                         *)
(* Every goroutine is a thread with a call stack of frames; one action is  *)
(* one atomic step of the code: a critical section of the per-process      *)
(* mutex (p.State(), p.SetStatus(), p.Start(), ...), a channel operation,  *)
(* or a context check.  Purely local computation is folded into the step   *)
(* that follows it.                                                        *)
(***************************************************************************)
EXTENDS Integers, Sequences, FiniteSets, TLC

VARIABLES
    config,        \* config.Config: [Processes: name -> [Command, DependsOn, Retry], Groups]
    graph,         \* DependencyGraph: [forward, reverse, nodes]
    state,         \* p.state per process: [Status, RetryCount, LastError, ExitCode]
    sinceStarted,  \* time.Since(p.state.StartedAt) in seconds, saturated at DepHealthDelay;
                   \* kept for the processes waitForHealthy reads it of (those with dependents)
    cmd,           \* p.cmd per process: the session of the current exec.Cmd (0 = nil)
    done,          \* p.done per process: the session whose channel it is (0 = nil)
    sessions,      \* one record per spawned child, in spawn order
    stack,         \* call stack of every goroutine (user operations and monitors)
    ret,           \* error value returned by the last call that returned, per goroutine
    events,        \* pm.events: the buffered channel of StateEvents
    cancelled,     \* pm.ctx is Done
    op,            \* per user goroutine: the operation in progress (or last finished)
    ops,           \* number of user operations begun
    rb,            \* logging.RingBuffer under observation: [lines, size, pos, count]
    written        \* the lines written to rb, in the order the writes took effect

vars == <<config, graph, state, sinceStarted, cmd, done, sessions, stack, ret,
          events, cancelled, op, ops, rb, written>>

----------------------------------------------------------------------------
(* Bounds of the model *)

MaxOps == 2
MaxSessions == 4
MaxDeps == 1        \* length of the depends_on lists of the generated catalogs
MaxTargets == 2     \* length of the target lists passed to StartOrder
MaxLines == 2       \* lines that each writer writes to the ring buffer
MaxSize == 3        \* capacity of the ring buffer
MaxAttempt == 3     \* retry attempts and max_attempts of the retry policies
JitterSteps == 4    \* rand.Float64() takes the values r / JitterSteps, r < JitterSteps

(* Program constants *)

DepHealthDelay == 2
EventCap == 100

----------------------------------------------------------------------------
(* Status values (state.go) *)

StatusStopped  == "stopped"
StatusStarting == "starting"
StatusRunning  == "running"
StatusFailed   == "failed"
StatusRetrying == "retrying"
StatusStopping == "stopping"

\* The goroutine that issues the user's operations, one after another; the
\* monitor goroutines, one per spawned child, run concurrently with it.
Users == {<<"user", 0>>}
Monitors == {"mon"} \X (1..MaxSessions)
Threads == Users \cup Monitors

Range(s) == {s[i] : i \in 1..Len(s)}

SeqsOf(S) ==
    {s \in [1..Cardinality(S) -> S] : \A i, j \in 1..Cardinality(S) : i # j => s[i] # s[j]}

Min(a, b) == IF a < b THEN a ELSE b

----------------------------------------------------------------------------
(* Retry policy (retry.go) *)

shouldRetryLeq(attempt, cfg) ==
    IF ~cfg.Enabled THEN FALSE
    ELSE IF cfg.MaxAttempts = 0 THEN TRUE
    ELSE attempt <= cfg.MaxAttempts

\* A test in which max_attempts = 0 allows no retry at all.
shouldRetryFinite(attempt, cfg) == cfg.Enabled /\ attempt < cfg.MaxAttempts

shouldRetry(attempt, cfg) ==
    IF ~cfg.Enabled THEN FALSE
    ELSE IF cfg.MaxAttempts = 0 THEN TRUE
    ELSE attempt < cfg.MaxAttempts

\* math.Pow for a whole base and exponent.
RECURSIVE Pow(_, _)
Pow(b, n) == IF n = 0 THEN 1 ELSE b * Pow(b, n - 1)

\* nextBackoff, in nanoseconds, when rand.Float64() returns r / JitterSteps.
\* The float64 values are taken as exact: base, jitter and the jittered base
\* are the fractions num / den below, and the conversion time.Duration(base)
\* of a non-negative float64 discards the fraction.
nextBackoff(attempt, cfg, r) ==
    LET pow == cfg.InitialBackoff * Pow(cfg.BackoffMultiplier, attempt)
        base == IF pow > cfg.MaxBackoff THEN cfg.MaxBackoff ELSE pow
        den == 10 * JitterSteps
        num == base * den - base * JitterSteps + r * 2 * base
    IN num \div den

----------------------------------------------------------------------------
(* Dependency graph (second half of manager.go) *)

\* m[k] of a Go map of slices: nil when the key is missing.
Lookup(m, k) == IF k \in DOMAIN m THEN m[k] ELSE <<>>

\* g.reverse[dep] after the range over cfg.Processes visited the names of iter:
\* every name once for each of its depends_on entries that is dep.
RECURSIVE ReverseOf(_, _, _)
ReverseOf(cfg, iter, dep) ==
    IF iter = <<>> THEN <<>>
    ELSE LET name == Head(iter)
             same == SelectSeq(cfg.Processes[name].DependsOn, LAMBDA d : d = dep)
         IN [i \in 1..Len(same) |-> name] \o ReverseOf(cfg, Tail(iter), dep)

\* iter is the order in which the range over cfg.Processes visits the names.
NewDependencyGraph(cfg, iter) ==
    [forward |-> [n \in DOMAIN cfg.Processes |-> cfg.Processes[n].DependsOn],
     reverse |-> [d \in UNION {Range(cfg.Processes[n].DependsOn) : n \in DOMAIN cfg.Processes}
                     |-> ReverseOf(cfg, iter, d)],
     nodes   |-> DOMAIN cfg.Processes]

\* A walk that stops at the direct neighbours.
WalkListDirect(adj, lst, result) == result \o lst

\* The walk closure of Dependents / Dependencies: a depth-first preorder over
\* adj that appends a node when it is first visited.
RECURSIVE WalkList(_, _, _)
WalkList(adj, lst, result) ==
    IF lst = <<>> THEN result
    ELSE LET dep == Head(lst) IN
         IF dep \in Range(result)
         THEN WalkList(adj, Tail(lst), result)
         ELSE WalkList(adj, Tail(lst), WalkList(adj, Lookup(adj, dep), Append(result, dep)))

\* Dependents walking the dependency edges instead of the reverse edges.
DependentsForward(g, name) == WalkList(g.forward, Lookup(g.forward, name), <<>>)

Dependents(g, name) == WalkList(g.reverse, Lookup(g.reverse, name), <<>>)

Dependencies(g, name) == WalkList(g.forward, Lookup(g.forward, name), <<>>)

\* A collection of the targets alone.
CollectDepsShallow(g, lst, required) == required \cup Range(lst)

\* collectDeps: the targets and their transitive dependencies.
RECURSIVE CollectDeps(_, _, _)
CollectDeps(g, lst, required) ==
    IF lst = <<>> THEN required
    ELSE IF Head(lst) \in required
         THEN CollectDeps(g, Tail(lst), required)
         ELSE CollectDeps(g, Tail(lst),
                          CollectDeps(g, Lookup(g.forward, Head(lst)),
                                      required \cup {Head(lst)}))

Required(g, targets) == CollectDeps(g, targets, {})

InDegree(g, required) ==
    [n \in required |-> Len(SelectSeq(Lookup(g.forward, n), LAMBDA d : d \in required))]

\* An inner loop that releases no dependent.
RelaxNone(lst, required, queue, inDegree) == [queue |-> queue, inDegree |-> inDegree]

\* The inner loop of Kahn's algorithm over g.reverse[node].
RECURSIVE Relax(_, _, _, _)
Relax(lst, required, queue, inDegree) ==
    IF lst = <<>> THEN [queue |-> queue, inDegree |-> inDegree]
    ELSE LET dep == Head(lst) IN
         IF dep \notin required
         THEN Relax(Tail(lst), required, queue, inDegree)
         ELSE LET deg == inDegree[dep] - 1 IN
              Relax(Tail(lst), required,
                    IF deg = 0 THEN Append(queue, dep) ELSE queue,
                    [inDegree EXCEPT ![dep] = deg])

RECURSIVE Kahn(_, _, _, _, _)
Kahn(g, required, queue, inDegree, order) ==
    IF queue = <<>> THEN order
    ELSE LET node == Head(queue)
             r == Relax(Lookup(g.reverse, node), required, Tail(queue), inDegree)
         IN Kahn(g, required, r.queue, r.inDegree, Append(order, node))

\* The possible initial queues: the range over the inDegree map visits the
\* zero-degree nodes in any order.
InitialQueues(g, targets) ==
    LET required == Required(g, targets)
        inDegree == InDegree(g, required)
    IN SeqsOf({n \in required : inDegree[n] = 0})

\* StartOrder for known targets, given the initial queue the map iteration produced.
StartOrder(g, targets, queue) ==
    LET required == Required(g, targets)
    IN Kahn(g, required, queue, InDegree(g, required), <<>>)

\* The error StartOrder returns with the order that Kahn's algorithm produced:
\* an unknown target, or fewer nodes ordered than required.
StartOrderErr(g, targets, order) ==
    IF \E i \in 1..Len(targets) : targets[i] \notin g.nodes
    THEN "unknown process"
    ELSE IF Len(order) # Cardinality(Required(g, targets))
    THEN "dependency cycle detected"
    ELSE "nil"

\* The initial queues of Validate: the nodes without depends_on entries, in the
\* order of the range over the inDegree map.
ValidateQueues(g) == SeqsOf({n \in g.nodes : Len(g.forward[n]) = 0})

\* Validate (manager.go 542-579): Kahn's algorithm over all nodes, the in-degree
\* of a node being the length of its depends_on list.  (The entries of
\* g.reverse[node] are nodes, so Relax skips none of them.)
Validate(g, queue) ==
    LET inDegree == [n \in g.nodes |-> Len(g.forward[n])]
        visited == Len(Kahn(g, g.nodes, queue, inDegree, <<>>))
    IN IF visited # Cardinality(g.nodes) THEN "dependency cycle detected" ELSE "nil"

Reverse(s) == [i \in 1..Len(s) |-> s[Len(s) + 1 - i]]

StopOrder(g, targets, queue) == Reverse(StartOrder(g, targets, queue))

----------------------------------------------------------------------------
(* Catalogs.  Command stands for the shell command of the tests:           *)
(* "sleep" is `sleep 3600` (exits only on a signal), "exit1" is `exit 1`   *)
(* (exits non-zero on its own), "exit0" exits zero on its own.             *)

Process(command, dependsOn, enabled, maxAttempts) ==
    [Command |-> command, DependsOn |-> dependsOn,
     Retry |-> [Enabled |-> enabled, MaxAttempts |-> maxAttempts]]

NewProcessState == [Status |-> StatusStopped, RetryCount |-> 0, LastError |-> "", ExitCode |-> 0]

\* A manager over one of the catalogs, all processes Stopped, with the events in
\* backlog sent and not yet received.
ManagerWith(catalogs, backlog) ==
    /\ config \in catalogs
    /\ \E iter \in SeqsOf(DOMAIN config.Processes) : graph = NewDependencyGraph(config, iter)
    /\ state = [n \in DOMAIN config.Processes |-> NewProcessState]
    /\ sinceStarted = [n \in DOMAIN config.Processes |-> DepHealthDelay]
    /\ cmd = [n \in DOMAIN config.Processes |-> 0]
    /\ done = [n \in DOMAIN config.Processes |-> 0]
    /\ sessions = <<>>
    /\ stack = [t \in Threads |-> <<>>]
    /\ ret = [t \in Users |-> "nil"]
    /\ events = backlog
    /\ cancelled = FALSE
    /\ op = [u \in Users |-> [kind |-> "", name |-> "", snap |-> <<>>, ev0 |-> 0,
                             log |-> <<>>, selfExit |-> FALSE]]
    /\ ops = 0
    /\ rb = <<>> /\ written = <<>>

\* NewProcessManager over catalog cfg.
InitWith(catalogs) == ManagerWith(catalogs, <<>>)

----------------------------------------------------------------------------
(* Goroutines and their call stacks *)

Frame(fn, pc, name, list) ==
    [fn |-> fn, pc |-> pc, name |-> name, list |-> list, more |-> <<>>,
     old |-> "", n |-> 0, err |-> "", seen |-> 0]

Top(t) == Head(stack[t])

\* A second close of a closed channel panics, and so does a method call on the
\* nil *ManagedProcess that pm.processes yields for a missing name: the program
\* is gone.
Panicked ==
    \/ \E s \in 1..Len(sessions) : sessions[s].closed > 1
    \/ \E t \in Threads : stack[t] # <<>> /\ Head(stack[t]).pc = "panic"

At(t, fn, pc) == ~Panicked /\ stack[t] # <<>> /\ Top(t).fn = fn /\ Top(t).pc = pc

ActiveStatuses == {StatusRunning, StatusStarting, StatusRetrying}

\* The control flow between the atomic steps: returns from calls, loop exits and
\* calls that touch no shared state.  stk is a call stack whose top frame has just
\* been updated (or popped, err being the callee's error); the result is the
\* stack at the next atomic step, and the error of the whole goroutine when the
\* stack has emptied.
RECURSIVE Settle(_, _)
Settle(stk, err) ==
    IF stk = <<>> THEN [stk |-> <<>>, err |-> err]
    ELSE LET f == Head(stk)
             rest == Tail(stk)
             at(fn, pc) == f.fn = fn /\ f.pc = pc
             next == <<[f EXCEPT !.pc = "loop", !.list = Tail(f.list)]>> \o rest
         IN
         CASE at("startInOrder", "loop") /\ f.list = <<>> -> Settle(rest, "nil")
           [] at("startInOrder", "wait") /\ f.more = <<>> ->
                [stk |-> <<Frame("startSingle", "state", f.name, <<>>),
                           [f EXCEPT !.pc = "called"]>> \o rest, err |-> "nil"]
           [] at("startInOrder", "called") ->
                IF err # "nil" THEN Settle(rest, err) ELSE Settle(next, "nil")
           [] at("StopProcess", "loop") /\ f.list = <<>> ->
                [stk |-> <<Frame("stopSingle", "state", f.name, <<>>),
                           [f EXCEPT !.pc = "last"]>> \o rest, err |-> "nil"]
           [] at("StopProcess", "next") -> Settle(next, "nil")
           [] at("StopProcess", "last") -> Settle(rest, err)
           [] at("RestartProcess", "snap") /\ f.list = <<>> ->
                Settle(<<Frame("StopProcess", "loop", f.name, Dependents(graph, f.name)),
                         [f EXCEPT !.pc = "stopped"]>> \o rest, "nil")
           [] at("RestartProcess", "stopped") ->
                IF err # "nil" THEN Settle(rest, err)
                ELSE [stk |-> <<Frame("startSingle", "state", f.name, <<>>),
                                [f EXCEPT !.pc = "started"]>> \o rest, err |-> "nil"]
           [] at("RestartProcess", "started") ->
                IF err # "nil" THEN Settle(rest, err)
                ELSE Settle(<<[f EXCEPT !.pc = "reset", !.list = f.more]>> \o rest, "nil")
           [] at("RestartProcess", "reset") /\ f.list = <<>> -> Settle(rest, "nil")
           [] at("RestartProcess", "restarted") ->
                Settle(<<[f EXCEPT !.pc = "reset", !.list = Tail(f.list)]>> \o rest, "nil")
           [] at("StopAll", "snap") /\ f.list = <<>> -> Settle(rest, "nil")
           [] at("StopAll", "loop") /\ f.list = <<>> -> Settle(rest, "nil")
           [] at("StopAll", "next") -> Settle(next, "nil")
           [] at("Shutdown", "stoppedAll") -> Settle(rest, "nil")
           [] at("cascadeFailure", "loop") /\ f.list = <<>> -> Settle(rest, "nil")
           [] at("cascadeFailure", "stopped") ->
                [stk |-> <<[f EXCEPT !.pc = "state2"]>> \o rest, err |-> "nil"]
           [] at("monitor", "restarted") -> Settle(rest, "nil")
           [] at("monitor", "cascaded") -> Settle(rest, "nil")
           [] OTHER -> [stk |-> stk, err |-> err]

\* Goroutine t continues with call stack stk.
Advance(t, stk, err) ==
    LET r == Settle(stk, err) IN
    /\ stack' = [stack EXCEPT ![t] = r.stk]
    /\ ret' = IF t \in Users /\ r.stk = <<>> THEN [ret EXCEPT ![t] = r.err] ELSE ret

Goto(t, f) == Advance(t, <<f>> \o Tail(stack[t]), "nil")

Call(t, f, callee) == Advance(t, <<callee, f>> \o Tail(stack[t]), "nil")

Return(t, err) == Advance(t, Tail(stack[t]), err)

\* What a user goroutine did in its current operation, for the ordering properties.
\* status and age are what the step read of process name.
Logged(t, what, name) ==
    IF t \in Users
    THEN [op EXCEPT ![t].log = Append(@, [what |-> what, name |-> name,
                                           status |-> state[name].Status,
                                           age |-> sinceStarted[name]])]
    ELSE op

\* The bookkeeping of a user operation: its kind and argument, the statuses and
\* the number of events at the call, what it has done so far, and whether a
\* child exited on its own while it ran.
NewOp(kind, name) ==
    [kind |-> kind, name |-> name, snap |-> [n \in DOMAIN state |-> state[n].Status],
     ev0 |-> Len(events), log |-> <<>>, selfExit |-> FALSE]

Idle(t) == ~Panicked /\ t \in Users /\ stack[t] = <<>> /\ ops < MaxOps

\* A blocking send: it waits for room in the channel.
emitEventBlocking(name, oldState, newState, errMsg) ==
    /\ Len(events) < EventCap
    /\ events' = Append(events, [Name |-> name, OldState |-> oldState,
                                 NewState |-> newState, Error |-> errMsg])

\* emitEvent: a non-blocking send; the event is dropped when the channel is full.
emitEvent(name, oldState, newState, errMsg) ==
    events' = IF Len(events) < EventCap
              THEN Append(events, [Name |-> name, OldState |-> oldState,
                                   NewState |-> newState, Error |-> errMsg])
              ELSE events

DependencyFailedMsg(dep) == "dependency " \o dep \o " failed"

----------------------------------------------------------------------------
(* ManagedProcess (part_005) *)

NewSession(name) ==
    [name |-> name, exited |-> FALSE, signalled |-> FALSE, closed |-> 0,
     waiter |-> "pending", wcmd |-> 0]

\* The waitForExit goroutines of process name that have not yet evaluated p.cmd:
\* waitForExit reads p.cmd without holding p.mu, at any time after it was spawned.
UnboundWaiters(name) ==
    {w \in 1..Len(sessions) : /\ sessions[w].name = name
                              /\ sessions[w].waiter = "pending"
                              /\ sessions[w].wcmd = 0}

\* The session whose exec.Cmd the waitForExit goroutine of session w waits on.
WaitsOn(w) ==
    IF sessions[w].wcmd = 0 THEN cmd[sessions[w].name] ELSE sessions[w].wcmd

\* The child of session c may exit now: on its own, or because it was signalled.
CanExit(c) ==
    \/ sessions[c].signalled
    \/ config.Processes[sessions[c].name].Command \in {"exit0", "exit1"}

\* What cmd.Wait() can return for the child of session c.
WaitResults(c) ==
    LET command == config.Processes[sessions[c].name].Command
        killed == IF sessions[c].signalled
                  THEN {[isErr |-> TRUE, exitErr |-> TRUE, code |-> -1, msg |-> "signal: terminated"]}
                  ELSE {}
    IN IF sessions[c].exited
       THEN {[isErr |-> TRUE, exitErr |-> FALSE, code |-> 0, msg |-> "exec: Wait was already called"]}
       ELSE IF command = "exit1"
       THEN {[isErr |-> TRUE, exitErr |-> TRUE, code |-> 1, msg |-> "exit status 1"]} \cup killed
       ELSE IF command = "exit0"
       THEN {[isErr |-> FALSE, exitErr |-> FALSE, code |-> 0, msg |-> ""]} \cup killed
       ELSE killed

\* A waitForExit that takes every error of cmd.Wait() for a failure, whether or
\* not the process was being stopped.
waitForExitAnyError(w) ==
    /\ ~Panicked
    /\ w \in 1..Len(sessions)
    /\ sessions[w].waiter = "pending"
    /\ LET name == sessions[w].name
           c == WaitsOn(w)
       IN /\ sessions[c].exited \/ CanExit(c)
          /\ \E r \in WaitResults(c) :
               /\ state' = [state EXCEPT
                     ![name].ExitCode = IF r.isErr /\ ~r.exitErr THEN @ ELSE r.code,
                     ![name].Status = IF r.isErr THEN StatusFailed ELSE StatusStopped,
                     ![name].LastError = IF r.isErr THEN r.msg ELSE @]
               /\ LET s1 == [sessions EXCEPT ![c].exited = TRUE]
                      s2 == [s1 EXCEPT ![w].waiter = "done", ![w].wcmd = c]
                  IN sessions' = [s2 EXCEPT ![done[name]].closed = @ + 1]
               /\ op' = [u \in Users |->
                           IF stack[u] # <<>> /\ ~sessions[c].exited /\ ~sessions[c].signalled
                           THEN [op[u] EXCEPT !.selfExit = TRUE] ELSE op[u]]
    /\ UNCHANGED <<rb, written, config, graph, sinceStarted, cmd, done, stack, ret, events, cancelled, ops>>

\* waitForExit closing p.done without having recorded the exit.
waitForExitCloseFirst(w) ==
    /\ ~Panicked
    /\ w \in 1..Len(sessions)
    /\ sessions[w].waiter = "pending"
    /\ LET name == sessions[w].name
           c == WaitsOn(w)
       IN /\ sessions[c].exited \/ CanExit(c)
          /\ LET s1 == [sessions EXCEPT ![c].exited = TRUE]
                 s2 == [s1 EXCEPT ![w].waiter = "done", ![w].wcmd = c]
             IN sessions' = [s2 EXCEPT ![done[name]].closed = @ + 1]
    /\ UNCHANGED <<rb, written, config, graph, state, sinceStarted, cmd, done, stack, ret, events,
                   cancelled, op, ops>>

\* waitForExit of the child session w: cmd.Wait() returns, then under p.mu the exit
\* is recorded and p.done, the channel p.done names at that moment, is closed.
waitForExit(w) ==
    /\ ~Panicked
    /\ w \in 1..Len(sessions)
    /\ sessions[w].waiter = "pending"
    /\ LET name == sessions[w].name
           c == WaitsOn(w)
       IN /\ sessions[c].exited \/ CanExit(c)
          /\ \E r \in WaitResults(c) :
               /\ state' = [state EXCEPT
                     ![name].ExitCode = IF r.isErr /\ ~r.exitErr THEN @ ELSE r.code,
                     ![name].Status = IF r.isErr /\ @ # StatusStopping
                                      THEN StatusFailed ELSE StatusStopped,
                     ![name].LastError = IF r.isErr /\ state[name].Status # StatusStopping
                                         THEN r.msg ELSE @]
               /\ LET s1 == [sessions EXCEPT ![c].exited = TRUE]
                      s2 == [s1 EXCEPT ![w].waiter = "done", ![w].wcmd = c]
                  IN sessions' = [s2 EXCEPT ![done[name]].closed = @ + 1]
               /\ op' = [u \in Users |->
                           IF stack[u] # <<>> /\ ~sessions[c].exited /\ ~sessions[c].signalled
                           THEN [op[u] EXCEPT !.selfExit = TRUE] ELSE op[u]]
    /\ UNCHANGED <<rb, written, config, graph, sinceStarted, cmd, done, stack, ret, events, cancelled, ops>>

\* One second passes.
Tick ==
    /\ ~Panicked
    /\ \E n \in DOMAIN sinceStarted : sinceStarted[n] < DepHealthDelay
    /\ sinceStarted' = [n \in DOMAIN sinceStarted |-> Min(sinceStarted[n] + 1, DepHealthDelay)]
    /\ UNCHANGED <<rb, written, config, graph, state, cmd, done, sessions, stack, ret, events,
                   cancelled, op, ops>>

----------------------------------------------------------------------------
(* startSingle (manager.go 341-357) and ManagedProcess.Start *)

\* p := pm.processes[name]; oldStatus := p.State().Status
startSingleState(t) ==
    /\ At(t, "startSingle", "state")
    /\ IF Top(t).name \notin DOMAIN state
       THEN Goto(t, [Top(t) EXCEPT !.pc = "panic"])
       ELSE Goto(t, [Top(t) EXCEPT !.pc = "start", !.old = state[Top(t).name].Status])
    /\ UNCHANGED <<rb, written, config, graph, state, sinceStarted, cmd, done, sessions, events,
                   cancelled, op, ops>>

\* p.Start(), one critical section of p.mu.
Start(t) ==
    /\ At(t, "startSingle", "start")
    /\ LET f == Top(t)
           name == f.name
           s == Len(sessions) + 1
       IN IF state[name].Status = StatusRunning
          THEN /\ Goto(t, [f EXCEPT !.pc = "emitFailed", !.err = "already running"])
               /\ op' = Logged(t, "Start", name)
               /\ UNCHANGED <<state, sinceStarted, cmd, done, sessions>>
          ELSE IF config.Processes[name].Command = "badcwd"
          THEN /\ state' = [state EXCEPT ![name].Status = StatusFailed,
                                         ![name].LastError = "spawn failed"]
               /\ Goto(t, [f EXCEPT !.pc = "emitFailed", !.err = "spawn failed"])
               /\ op' = Logged(t, "Start", name)
               /\ UNCHANGED <<sinceStarted, cmd, done, sessions>>
          ELSE /\ s <= MaxSessions
               /\ \E read \in SUBSET UnboundWaiters(name) :
                    sessions' = Append([w \in 1..Len(sessions) |->
                                          IF w \in read
                                          THEN [sessions[w] EXCEPT !.wcmd = cmd[name]]
                                          ELSE sessions[w]],
                                       NewSession(name))
               /\ cmd' = [cmd EXCEPT ![name] = s]
               /\ done' = [done EXCEPT ![name] = s]
               /\ state' = [state EXCEPT ![name].Status = StatusRunning,
                                         ![name].LastError = "",
                                         ![name].ExitCode = 0]
               /\ sinceStarted' = IF Lookup(graph.reverse, name) = <<>> THEN sinceStarted
                                  ELSE [sinceStarted EXCEPT ![name] = 0]
               /\ Goto(t, [f EXCEPT !.pc = "emitRunning", !.n = s])
               /\ op' = Logged(t, "Start", name)
    /\ UNCHANGED <<rb, written, config, graph, events, cancelled, ops>>

\* p.Start() failed: emit the Failed event and return the error.
startSingleEmitFailed(t) ==
    /\ At(t, "startSingle", "emitFailed")
    /\ emitEvent(Top(t).name, Top(t).old, StatusFailed, Top(t).err)
    /\ Return(t, Top(t).err)
    /\ UNCHANGED <<rb, written, config, graph, state, sinceStarted, cmd, done, sessions,
                   cancelled, op, ops>>

\* p.Start() succeeded: emit the Running event and spawn the monitor goroutine.
startSingleEmitRunning(t) ==
    /\ At(t, "startSingle", "emitRunning")
    /\ emitEvent(Top(t).name, Top(t).old, StatusRunning, "")
    /\ LET r == Settle(Tail(stack[t]), "nil") IN
         /\ stack' = [stack EXCEPT ![t] = r.stk,
                                   ![<<"mon", Top(t).n>>] =
                                       <<Frame("monitor", "Wait", Top(t).name, <<>>)>>]
         /\ ret' = IF t \in Users /\ r.stk = <<>> THEN [ret EXCEPT ![t] = r.err] ELSE ret
    /\ UNCHANGED <<rb, written, config, graph, state, sinceStarted, cmd, done, sessions,
                   cancelled, op, ops>>

----------------------------------------------------------------------------
(* Start protocol: StartProcess and startInOrder (manager.go 94-100, 289-338) *)

StartProcess(t, name) ==
    /\ Idle(t)
    /\ IF name \notin graph.nodes
       THEN Advance(t, <<>>, "unknown process: " \o name)
       ELSE \E queue \in InitialQueues(graph, <<name>>) :
              Advance(t, <<Frame("startInOrder", "loop", "", StartOrder(graph, <<name>>, queue))>>,
                      "nil")
    /\ op' = [op EXCEPT ![t] = NewOp("StartProcess", name)]
    /\ ops' = ops + 1
    /\ UNCHANGED <<rb, written, config, graph, state, sinceStarted, cmd, done, sessions, events, cancelled>>

\* StartGroup (manager.go 168-183) for a group of the catalog.
StartGroup(t, groupName) ==
    /\ Idle(t)
    /\ groupName \in DOMAIN config.Groups
    /\ LET allTargets == config.Groups[groupName].Processes IN
         \E queue \in InitialQueues(graph, allTargets) :
           Advance(t, <<Frame("startInOrder", "loop", "", StartOrder(graph, allTargets, queue))>>,
                   "nil")
    /\ op' = [op EXCEPT ![t] = NewOp("StartGroup", groupName)]
    /\ ops' = ops + 1
    /\ UNCHANGED <<rb, written, config, graph, state, sinceStarted, cmd, done, sessions, events, cancelled>>

RECURSIVE GroupTargets(_, _)
GroupTargets(cfg, groupNames) ==
    IF groupNames = <<>> THEN <<>>
    ELSE cfg.Groups[Head(groupNames)].Processes \o GroupTargets(cfg, Tail(groupNames))

\* StartStack (manager.go 186-206) for a stack of the catalog.
StartStack(t, stackName) ==
    /\ Idle(t)
    /\ stackName \in DOMAIN config.Stacks
    /\ LET allTargets == GroupTargets(config, config.Stacks[stackName].Groups) IN
         \E queue \in InitialQueues(graph, allTargets) :
           Advance(t, <<Frame("startInOrder", "loop", "", StartOrder(graph, allTargets, queue))>>,
                   "nil")
    /\ op' = [op EXCEPT ![t] = NewOp("StartStack", stackName)]
    /\ ops' = ops + 1
    /\ UNCHANGED <<rb, written, config, graph, state, sinceStarted, cmd, done, sessions, events, cancelled>>

\* A loop that does not skip the processes it finds Running.
startInOrderLoopNoSkip(t) ==
    /\ At(t, "startInOrder", "loop")
    /\ LET f == Top(t)
           name == Head(f.list)
       IN IF cancelled THEN Return(t, "context canceled")
          ELSE Goto(t, [f EXCEPT !.pc = "deps", !.name = name,
                                 !.old = state[name].Status,
                                 !.more = Dependencies(graph, name)])
    /\ UNCHANGED <<rb, written, config, graph, state, sinceStarted, cmd, done, sessions, events,
                   cancelled, op, ops>>

\* Top of the loop: the context check, state := p.State(), skip if Running.
startInOrderLoop(t) ==
    /\ At(t, "startInOrder", "loop")
    /\ LET f == Top(t)
           name == Head(f.list)
       IN IF cancelled THEN Return(t, "context canceled")
          ELSE IF state[name].Status = StatusRunning
          THEN Goto(t, [f EXCEPT !.list = Tail(f.list)])
          ELSE Goto(t, [f EXCEPT !.pc = "deps", !.name = name,
                                 !.old = state[name].Status,
                                 !.more = Dependencies(graph, name)])
    /\ UNCHANGED <<rb, written, config, graph, state, sinceStarted, cmd, done, sessions, events,
                   cancelled, op, ops>>

\* A dependency check that never finds a Failed dependency.
startInOrderCheckDepNever(t) ==
    /\ At(t, "startInOrder", "deps")
    /\ LET f == Top(t) IN
         IF f.more = <<>>
         THEN Goto(t, [f EXCEPT !.pc = "wait", !.more = config.Processes[f.name].DependsOn])
         ELSE Goto(t, [f EXCEPT !.more = Tail(f.more)])
    /\ UNCHANGED <<rb, written, config, graph, state, sinceStarted, cmd, done, sessions, events,
                   cancelled, op, ops>>

\* depState := dp.State() for the next transitive dependency.
startInOrderCheckDep(t) ==
    /\ At(t, "startInOrder", "deps")
    /\ LET f == Top(t) IN
         IF f.more = <<>>
         THEN Goto(t, [f EXCEPT !.pc = "wait", !.more = config.Processes[f.name].DependsOn])
         ELSE IF state[Head(f.more)].Status = StatusFailed
         THEN Goto(t, [f EXCEPT !.pc = "setStatus", !.err = DependencyFailedMsg(Head(f.more))])
         ELSE Goto(t, [f EXCEPT !.more = Tail(f.more)])
    /\ UNCHANGED <<rb, written, config, graph, state, sinceStarted, cmd, done, sessions, events,
                   cancelled, op, ops>>

\* p.SetStatus(StatusFailed)
startInOrderSetStatus(t) ==
    /\ At(t, "startInOrder", "setStatus")
    /\ state' = [state EXCEPT ![Top(t).name].Status = StatusFailed]
    /\ Goto(t, [Top(t) EXCEPT !.pc = "setError"])
    /\ UNCHANGED <<rb, written, config, graph, sinceStarted, cmd, done, sessions, events, cancelled, op, ops>>

\* p.SetError(errMsg)
startInOrderSetError(t) ==
    /\ At(t, "startInOrder", "setError")
    /\ state' = [state EXCEPT ![Top(t).name].LastError = Top(t).err]
    /\ Goto(t, [Top(t) EXCEPT !.pc = "emit"])
    /\ UNCHANGED <<rb, written, config, graph, sinceStarted, cmd, done, sessions, events, cancelled, op, ops>>

\* pm.emitEvent(name, state.Status, StatusFailed, errMsg); return the error.
startInOrderEmit(t) ==
    /\ At(t, "startInOrder", "emit")
    /\ emitEvent(Top(t).name, Top(t).old, StatusFailed, Top(t).err)
    /\ Return(t, "cannot start: " \o Top(t).err)
    /\ UNCHANGED <<rb, written, config, graph, state, sinceStarted, cmd, done, sessions, cancelled, op, ops>>

\* The test waitForHealthy applies to the state it read.
HealthyNoDelay(status, since) == status = StatusRunning

Healthy(status, since) == status = StatusRunning /\ since >= DepHealthDelay

\* The poll of waitForHealthy on the next direct dependency that ends the wait.
\* A poll that finds the dependency Running but younger than the health delay
\* sleeps and polls again (the delay is far shorter than the 60 s deadline); one
\* that finds it neither Failed nor Running either polls again or is the poll
\* made after the deadline.
waitForHealthy(t) ==
    /\ At(t, "startInOrder", "wait")
    /\ LET f == Top(t)
           dep == Head(f.more)
       IN IF cancelled
          THEN Return(t, "context canceled") /\ op' = op
          ELSE IF state[dep].Status = StatusFailed
          THEN Return(t, "dependency is in failed state") /\ op' = op
          ELSE IF Healthy(state[dep].Status, sinceStarted[dep])
          THEN Goto(t, [f EXCEPT !.more = Tail(f.more)]) /\ op' = Logged(t, "Healthy", dep)
          ELSE /\ state[dep].Status # StatusRunning
               /\ Return(t, "timeout waiting to become healthy")
               /\ op' = op
    /\ UNCHANGED <<rb, written, config, graph, state, sinceStarted, cmd, done, sessions, events,
                   cancelled, ops>>

----------------------------------------------------------------------------
(* monitor (manager.go 382-433) *)

\* p.Wait(): the channel p.done names now, or a closed channel if it is nil.
monitorWait(t) ==
    /\ At(t, "monitor", "Wait")
    /\ Goto(t, [Top(t) EXCEPT !.pc = "recv", !.n = done[Top(t).name]])
    /\ UNCHANGED <<rb, written, config, graph, state, sinceStarted, cmd, done, sessions, events,
                   cancelled, op, ops>>

\* The receive on the channel returns; state := p.State(); the retry decision.
monitorState(t) ==
    /\ At(t, "monitor", "recv")
    /\ LET f == Top(t)
           st == state[f.name]
       IN /\ f.n = 0 \/ sessions[f.n].closed > 0
          /\ IF st.Status = StatusStopped
             THEN Return(t, "nil")
             ELSE IF shouldRetry(st.RetryCount, config.Processes[f.name].Retry)
             THEN Goto(t, [f EXCEPT !.pc = "setRetrying", !.n = st.RetryCount,
                                    !.seen = cmd[f.name]])
             ELSE Goto(t, [f EXCEPT !.pc = "setFailed", !.n = st.ExitCode,
                                    !.seen = cmd[f.name]])
    /\ UNCHANGED <<rb, written, config, graph, state, sinceStarted, cmd, done, sessions, events,
                   cancelled, op, ops>>

\* p.SetStatus(StatusRetrying)
monitorSetRetrying(t) ==
    /\ At(t, "monitor", "setRetrying")
    /\ state' = [state EXCEPT ![Top(t).name].Status = StatusRetrying]
    /\ Goto(t, [Top(t) EXCEPT !.pc = "setRetryState"])
    /\ UNCHANGED <<rb, written, config, graph, sinceStarted, cmd, done, sessions, events, cancelled, op, ops>>

\* p.SetRetryState(retryCount+1, nextRetry)
monitorSetRetryState(t) ==
    /\ At(t, "monitor", "setRetryState")
    /\ state' = [state EXCEPT ![Top(t).name].RetryCount = Top(t).n + 1]
    /\ Goto(t, [Top(t) EXCEPT !.pc = "emitRetrying"])
    /\ UNCHANGED <<rb, written, config, graph, sinceStarted, cmd, done, sessions, events, cancelled, op, ops>>

\* pm.emitEvent(name, StatusFailed, StatusRetrying, "")
monitorEmitRetrying(t) ==
    /\ At(t, "monitor", "emitRetrying")
    /\ emitEvent(Top(t).name, StatusFailed, StatusRetrying, "")
    /\ Goto(t, [Top(t) EXCEPT !.pc = "backoff"])
    /\ UNCHANGED <<rb, written, config, graph, state, sinceStarted, cmd, done, sessions, cancelled, op, ops>>

\* A monitor that restarts the process after the backoff whatever its status.
monitorBackoffElapsedAlways(t) ==
    /\ At(t, "monitor", "backoff")
    /\ ~cancelled
    /\ Call(t, [Top(t) EXCEPT !.pc = "restarted"],
            Frame("startSingle", "state", Top(t).name, <<>>))
    /\ UNCHANGED <<rb, written, config, graph, state, sinceStarted, cmd, done, sessions, events,
                   cancelled, op, ops>>

\* The backoff select takes the time.After case, the backoff (positive) having
\* elapsed before pm.ctx was cancelled; currentState := p.State().
monitorBackoffElapsed(t) ==
    /\ At(t, "monitor", "backoff")
    /\ ~cancelled
    /\ IF state[Top(t).name].Status # StatusRetrying
       THEN Return(t, "nil")
       ELSE Call(t, [Top(t) EXCEPT !.pc = "restarted"],
                 Frame("startSingle", "state", Top(t).name, <<>>))
    /\ UNCHANGED <<rb, written, config, graph, state, sinceStarted, cmd, done, sessions, events,
                   cancelled, op, ops>>

\* The backoff select takes the ctx.Done() case.
monitorBackoffCancelled(t) ==
    /\ At(t, "monitor", "backoff")
    /\ cancelled
    /\ Return(t, "nil")
    /\ UNCHANGED <<rb, written, config, graph, state, sinceStarted, cmd, done, sessions, events,
                   cancelled, op, ops>>

\* p.SetStatus(StatusFailed)
monitorSetFailed(t) ==
    /\ At(t, "monitor", "setFailed")
    /\ state' = [state EXCEPT ![Top(t).name].Status = StatusFailed]
    /\ Goto(t, [Top(t) EXCEPT !.pc = "emitFailed"])
    /\ UNCHANGED <<rb, written, config, graph, sinceStarted, cmd, done, sessions, events, cancelled, op, ops>>

MaxRetriesMsg(exitCode) == "max retries exhausted (exit code " \o ToString(exitCode) \o ")"

\* pm.emitEvent(name, StatusFailed, StatusFailed, ...); then pm.cascadeFailure(name).
monitorEmitFailed(t) ==
    /\ At(t, "monitor", "emitFailed")
    /\ emitEvent(Top(t).name, StatusFailed, StatusFailed, MaxRetriesMsg(Top(t).n))
    /\ Call(t, [Top(t) EXCEPT !.pc = "cascaded"],
            Frame("cascadeFailure", "loop", Top(t).name, Dependents(graph, Top(t).name)))
    /\ UNCHANGED <<rb, written, config, graph, state, sinceStarted, cmd, done, sessions, cancelled, op, ops>>

----------------------------------------------------------------------------
(* cascadeFailure (manager.go 436-455); frame.name is the failed process *)

\* state := p.State() of the next dependent; stop it first if it is active.
cascadeFailureState(t) ==
    /\ At(t, "cascadeFailure", "loop")
    /\ LET f == Top(t)
           dep == Head(f.list)
       IN IF state[dep].Status \in ActiveStatuses
          THEN Call(t, [f EXCEPT !.pc = "stopped"], Frame("stopSingle", "state", dep, <<>>))
          ELSE Goto(t, [f EXCEPT !.pc = "state2"])
    /\ UNCHANGED <<rb, written, config, graph, state, sinceStarted, cmd, done, sessions, events,
                   cancelled, op, ops>>

\* oldStatus := p.State().Status
cascadeFailureOldStatus(t) ==
    /\ At(t, "cascadeFailure", "state2")
    /\ Goto(t, [Top(t) EXCEPT !.pc = "setStatus", !.old = state[Head(Top(t).list)].Status])
    /\ UNCHANGED <<rb, written, config, graph, state, sinceStarted, cmd, done, sessions, events,
                   cancelled, op, ops>>

\* p.SetStatus(StatusFailed)
cascadeFailureSetStatus(t) ==
    /\ At(t, "cascadeFailure", "setStatus")
    /\ state' = [state EXCEPT ![Head(Top(t).list)].Status = StatusFailed]
    /\ Goto(t, [Top(t) EXCEPT !.pc = "setError"])
    /\ UNCHANGED <<rb, written, config, graph, sinceStarted, cmd, done, sessions, events, cancelled, op, ops>>

\* p.SetError(errMsg)
cascadeFailureSetError(t) ==
    /\ At(t, "cascadeFailure", "setError")
    /\ state' = [state EXCEPT ![Head(Top(t).list)].LastError = DependencyFailedMsg(Top(t).name)]
    /\ Goto(t, [Top(t) EXCEPT !.pc = "emit"])
    /\ UNCHANGED <<rb, written, config, graph, sinceStarted, cmd, done, sessions, events, cancelled, op, ops>>

\* pm.emitEvent(dep, oldStatus, StatusFailed, errMsg); next dependent.
cascadeFailureEmit(t) ==
    /\ At(t, "cascadeFailure", "emit")
    /\ emitEvent(Head(Top(t).list), Top(t).old, StatusFailed, DependencyFailedMsg(Top(t).name))
    /\ Goto(t, [Top(t) EXCEPT !.pc = "loop", !.list = Tail(Top(t).list)])
    /\ UNCHANGED <<rb, written, config, graph, state, sinceStarted, cmd, done, sessions, cancelled, op, ops>>

----------------------------------------------------------------------------
(* stopSingle (manager.go 360-379) and ManagedProcess.Stop *)

\* p := pm.processes[name]; oldStatus := p.State().Status
stopSingleState(t) ==
    /\ At(t, "stopSingle", "state")
    /\ IF Top(t).name \notin DOMAIN state
       THEN Goto(t, [Top(t) EXCEPT !.pc = "panic"])
       ELSE LET st == state[Top(t).name].Status IN
            Goto(t, [Top(t) EXCEPT !.old = st,
                                   !.pc = IF st = StatusRetrying THEN "setStopped" ELSE "Stop"])
    /\ UNCHANGED <<rb, written, config, graph, state, sinceStarted, cmd, done, sessions, events,
                   cancelled, op, ops>>

\* The pending retry is cancelled: p.SetStatus(StatusStopped)
stopSingleSetStopped(t) ==
    /\ At(t, "stopSingle", "setStopped")
    /\ state' = [state EXCEPT ![Top(t).name].Status = StatusStopped]
    /\ Goto(t, [Top(t) EXCEPT !.pc = "emit"])
    /\ op' = Logged(t, "Stop", Top(t).name)
    /\ UNCHANGED <<rb, written, config, graph, sinceStarted, cmd, done, sessions, events, cancelled, ops>>

\* p.Stop() up to the select: the critical section that sets Stopping and takes
\* cmd and done, then SIGTERM to the process group.
Stop(t) ==
    /\ At(t, "stopSingle", "Stop")
    /\ LET f == Top(t)
           name == f.name
       IN IF state[name].Status \notin {StatusRunning, StatusStarting}
          THEN /\ Goto(t, [f EXCEPT !.pc = "emit"])
               /\ UNCHANGED <<state, sessions>>
          ELSE /\ state' = [state EXCEPT ![name].Status = StatusStopping]
               /\ sessions' = [sessions EXCEPT ![cmd[name]].signalled = ~sessions[cmd[name]].exited]
               /\ Goto(t, [f EXCEPT !.pc = "done", !.n = done[name]])
    /\ op' = Logged(t, "Stop", Top(t).name)
    /\ UNCHANGED <<rb, written, config, graph, sinceStarted, cmd, done, events, cancelled, ops>>

\* p.Stop() returns once done is closed; pm.emitEvent(name, oldStatus, StatusStopped, "").
stopSingleDone(t) ==
    /\ At(t, "stopSingle", "done")
    /\ sessions[Top(t).n].closed > 0
    /\ emitEvent(Top(t).name, Top(t).old, StatusStopped, "")
    /\ Return(t, "nil")
    /\ UNCHANGED <<rb, written, config, graph, state, sinceStarted, cmd, done, sessions, cancelled, op, ops>>

\* pm.emitEvent(name, oldStatus, StatusStopped, "") after a Stop that did nothing
\* or after the retry was cancelled.
stopSingleEmit(t) ==
    /\ At(t, "stopSingle", "emit")
    /\ emitEvent(Top(t).name, Top(t).old, StatusStopped, "")
    /\ Return(t, "nil")
    /\ UNCHANGED <<rb, written, config, graph, state, sinceStarted, cmd, done, sessions, cancelled, op, ops>>

----------------------------------------------------------------------------
(* Stop protocol: StopProcess (manager.go 103-122) *)

StopProcess(t, name) ==
    /\ Idle(t)
    /\ Advance(t, <<Frame("StopProcess", "loop", name, Dependents(graph, name))>>, "nil")
    /\ op' = [op EXCEPT ![t] = NewOp("StopProcess", name)]
    /\ ops' = ops + 1
    /\ UNCHANGED <<rb, written, config, graph, state, sinceStarted, cmd, done, sessions, events, cancelled>>

\* state := p.State() of the next dependent; stopSingle(dep) if it is active.
StopProcessDependent(t) ==
    /\ At(t, "StopProcess", "loop")
    /\ LET f == Top(t)
           dep == Head(f.list)
       IN IF state[dep].Status \in ActiveStatuses
          THEN Call(t, [f EXCEPT !.pc = "next"], Frame("stopSingle", "state", dep, <<>>))
          ELSE Goto(t, [f EXCEPT !.list = Tail(f.list)])
    /\ UNCHANGED <<rb, written, config, graph, state, sinceStarted, cmd, done, sessions, events,
                   cancelled, op, ops>>

----------------------------------------------------------------------------
(* Restart protocol: RestartProcess (manager.go 126-165) *)

RestartProcess(t, name) ==
    /\ Idle(t)
    /\ Advance(t, <<Frame("RestartProcess", "snap", name, Dependents(graph, name))>>, "nil")
    /\ op' = [op EXCEPT ![t] = NewOp("RestartProcess", name)]
    /\ ops' = ops + 1
    /\ UNCHANGED <<rb, written, config, graph, state, sinceStarted, cmd, done, sessions, events, cancelled>>

\* A snapshot that puts every dependent into restartDeps, whatever its status.
RestartProcessSnapshotAll(t) ==
    /\ At(t, "RestartProcess", "snap")
    /\ Goto(t, [Top(t) EXCEPT !.list = Tail(Top(t).list),
                              !.more = Append(Top(t).more, Head(Top(t).list))])
    /\ UNCHANGED <<rb, written, config, graph, state, sinceStarted, cmd, done, sessions, events,
                   cancelled, op, ops>>

\* state := p.State() of the next dependent; it joins restartDeps unless Stopped
\* (or Stopping).
RestartProcessSnapshot(t) ==
    /\ At(t, "RestartProcess", "snap")
    /\ LET f == Top(t)
           dep == Head(f.list)
       IN Goto(t, [f EXCEPT !.list = Tail(f.list),
                            !.more = IF state[dep].Status \in ActiveStatuses \cup {StatusFailed}
                                     THEN Append(f.more, dep) ELSE f.more])
    /\ UNCHANGED <<rb, written, config, graph, state, sinceStarted, cmd, done, sessions, events,
                   cancelled, op, ops>>

\* p.ResetRetryCount() of the next dependent to restart, then startSingle(dep).
RestartProcessReset(t) ==
    /\ At(t, "RestartProcess", "reset")
    /\ LET f == Top(t)
           dep == Head(f.list)
       IN /\ state' = [state EXCEPT ![dep].RetryCount = 0]
          /\ Call(t, [f EXCEPT !.pc = "restarted"], Frame("startSingle", "state", dep, <<>>))
    /\ UNCHANGED <<rb, written, config, graph, sinceStarted, cmd, done, sessions, events, cancelled, op, ops>>

----------------------------------------------------------------------------
(* Shutdown and StopAll (manager.go 240-286) *)

Shutdown(t) ==
    /\ Idle(t)
    /\ Advance(t, <<Frame("Shutdown", "cancel", "", <<>>)>>, "nil")
    /\ op' = [op EXCEPT ![t] = NewOp("Shutdown", "")]
    /\ ops' = ops + 1
    /\ UNCHANGED <<rb, written, config, graph, state, sinceStarted, cmd, done, sessions, events, cancelled>>

\* pm.cancel(); StopAll begins to range over pm.processes in some order.
ShutdownCancel(t) ==
    /\ At(t, "Shutdown", "cancel")
    /\ cancelled' = TRUE
    /\ \E iter \in SeqsOf(DOMAIN config.Processes) :
         Call(t, [Top(t) EXCEPT !.pc = "stoppedAll"], Frame("StopAll", "snap", "", iter))
    /\ UNCHANGED <<rb, written, config, graph, state, sinceStarted, cmd, done, sessions, events, op, ops>>

\* state := p.State() of the next process of the range; after the last one,
\* order := StopOrder(running).
StopAllSnapshot(t) ==
    /\ At(t, "StopAll", "snap")
    /\ LET f == Top(t)
           name == Head(f.list)
           running == IF state[name].Status \in ActiveStatuses \cup {StatusStopping}
                      THEN Append(f.more, name) ELSE f.more
       IN IF Tail(f.list) = <<>> /\ running # <<>>
          THEN \E queue \in InitialQueues(graph, running) :
                 Goto(t, [f EXCEPT !.pc = "loop", !.list = StopOrder(graph, running, queue)])
          ELSE Goto(t, [f EXCEPT !.list = Tail(f.list), !.more = running])
    /\ UNCHANGED <<rb, written, config, graph, state, sinceStarted, cmd, done, sessions, events,
                   cancelled, op, ops>>

\* state := p.State() of the next process of the stop order; stopSingle if active.
StopAllNext(t) ==
    /\ At(t, "StopAll", "loop")
    /\ LET f == Top(t)
           name == Head(f.list)
       IN IF state[name].Status \in ActiveStatuses
          THEN Call(t, [f EXCEPT !.pc = "next"], Frame("stopSingle", "state", name, <<>>))
          ELSE Goto(t, [f EXCEPT !.list = Tail(f.list)])
    /\ UNCHANGED <<rb, written, config, graph, state, sinceStarted, cmd, done, sessions, events,
                   cancelled, op, ops>>

----------------------------------------------------------------------------
(* Catalogs *)

NoGroups == <<>>

\* `exit 1` with retry {enabled, max_attempts}, as in TestManager_RetryOnFailure.
Failing(maxAttempts) ==
    [Processes |-> [A |-> Process("exit1", <<>>, TRUE, maxAttempts)],
     Groups |-> NoGroups, Stacks |-> NoGroups]

\* B depends on A; A exits non-zero on its own.
Pair(retryA, maxA, commandB, retryB, maxB) ==
    [Processes |-> [A |-> Process("exit1", <<>>, retryA, maxA),
                    B |-> Process(commandB, <<"A">>, retryB, maxB)],
     Groups |-> NoGroups, Stacks |-> NoGroups]

\* The linear chain of the end-to-end scenarios: B depends on A, C on B.
Chain ==
    [Processes |-> [A |-> Process("sleep", <<>>, FALSE, 0),
                    B |-> Process("sleep", <<"A">>, FALSE, 0),
                    C |-> Process("sleep", <<"B">>, FALSE, 0)],
     Groups |-> [tunnels |-> [Processes |-> <<"A", "B">>],
                 services |-> [Processes |-> <<"C">>]],
     Stacks |-> [full |-> [Groups |-> <<"tunnels", "services">>]]]

\* C depends on A and on B, which are independent of each other.
Vee ==
    [Processes |-> [A |-> Process("sleep", <<>>, FALSE, 0),
                    B |-> Process("sleep", <<>>, FALSE, 0),
                    C |-> Process("sleep", <<"A", "B">>, FALSE, 0)],
     Groups |-> [front |-> [Processes |-> <<"C">>],
                 back |-> [Processes |-> <<"B", "A">>]],
     Stacks |-> [full |-> [Groups |-> <<"front", "back">>]]]

\* B depends on A; A is a job that exits with status 0 on its own.
Oneshot ==
    [Processes |-> [A |-> Process("exit0", <<>>, FALSE, 0),
                    B |-> Process("sleep", <<"A">>, FALSE, 0)],
     Groups |-> NoGroups, Stacks |-> NoGroups]

\* The catalog whose processes and depends_on lists are those of deps.
Catalog(deps) ==
    [Processes |-> [n \in DOMAIN deps |-> Process("sleep", deps[n], FALSE, 0)],
     Groups |-> NoGroups, Stacks |-> NoGroups]

\* The diamond of TestDependencyGraph_Diamond.
Diamond == Catalog([A |-> <<>>, B |-> <<"A">>, C |-> <<"A">>, D |-> <<"B", "C">>])

\* The catalogs the graph functions are applied to: every catalog of three
\* processes whose depends_on lists name up to MaxDeps distinct processes in
\* alphabetical order (self-dependencies and cycles included), the diamond, the
\* two-dependency catalog and the same with its list in the other order,
\* a catalog with a depends_on entry repeated, and catalogs with a depends_on
\* entry that names no process.
GraphCatalogs ==
    LET names == {"A", "B", "C"}
        lists == {SelectSeq(<<"A", "B", "C">>, LAMBDA n : n \in S)
                    : S \in {S \in SUBSET names : Cardinality(S) <= MaxDeps}}
    IN {Catalog(deps) : deps \in [names -> lists]}
       \cup {Diamond, Vee,
              Catalog([A |-> <<>>, B |-> <<>>, C |-> <<"B", "A">>]),
              Catalog([A |-> <<>>, B |-> <<"A", "A">>]),
              Catalog([A |-> <<>>, B |-> <<"ghost">>]),
              Catalog([A |-> <<>>, B |-> <<"A", "ghost">>, C |-> <<"B">>])}

ProcessNames == {"A", "B", "C"}

User == <<"user", 0>>

----------------------------------------------------------------------------
(* Specifications *)

\* The engine after one start request: the start sequence, the children, their
\* monitors with retry and backoff, terminal failure and its cascade.
Init ==
    InitWith({Failing(1), Failing(2),
              Pair(TRUE, 1, "sleep", FALSE, 0),
              Pair(FALSE, 0, "sleep", FALSE, 0),
              Pair(FALSE, 0, "sleep", TRUE, 1),
              Pair(FALSE, 0, "exit1", TRUE, 1)})

Next ==
    \/ \E name \in DOMAIN config.Processes : ops = 0 /\ StartProcess(User, name)
    \/ \E t \in Threads : startInOrderLoop(t)
    \/ \E t \in Threads : startInOrderCheckDep(t)
    \/ \E t \in Threads : startInOrderSetStatus(t)
    \/ \E t \in Threads : startInOrderSetError(t)
    \/ \E t \in Threads : startInOrderEmit(t)
    \/ \E t \in Threads : waitForHealthy(t)
    \/ \E t \in Threads : startSingleState(t)
    \/ \E t \in Threads : Start(t)
    \/ \E t \in Threads : startSingleEmitRunning(t)
    \/ \E t \in Threads : monitorWait(t)
    \/ \E t \in Threads : monitorState(t)
    \/ \E t \in Threads : monitorSetRetrying(t)
    \/ \E t \in Threads : monitorSetRetryState(t)
    \/ \E t \in Threads : monitorEmitRetrying(t)
    \/ \E t \in Threads : monitorBackoffElapsed(t)
    \/ \E t \in Threads : monitorSetFailed(t)
    \/ \E t \in Threads : monitorEmitFailed(t)
    \/ \E t \in Threads : cascadeFailureState(t)
    \/ \E t \in Threads : cascadeFailureOldStatus(t)
    \/ \E t \in Threads : cascadeFailureSetStatus(t)
    \/ \E t \in Threads : cascadeFailureSetError(t)
    \/ \E t \in Threads : cascadeFailureEmit(t)
    \/ \E t \in Threads : stopSingleState(t)
    \/ \E t \in Threads : stopSingleSetStopped(t)
    \/ \E t \in Threads : Stop(t)
    \/ \E t \in Threads : stopSingleDone(t)
    \/ \E t \in Threads : stopSingleEmit(t)
    \/ \E w \in 1..MaxSessions : waitForExit(w)
    \/ Tick

Spec == Init /\ [][Next]_vars

\* The chain whose first process exits non-zero on its own and is not retried.
FailingChain ==
    [Processes |-> [A |-> Process("exit1", <<>>, FALSE, 0),
                    B |-> Process("sleep", <<"A">>, FALSE, 0),
                    C |-> Process("sleep", <<"B">>, FALSE, 0)],
     Groups |-> NoGroups, Stacks |-> NoGroups]

\* One start request for the end of a chain whose first process fails.
NextDepFailed ==
    \/ ops = 0 /\ StartProcess(User, "C")
    \/ \E t \in Threads : startInOrderLoop(t)
    \/ \E t \in Threads : startInOrderCheckDep(t)
    \/ \E t \in Threads : startInOrderSetStatus(t)
    \/ \E t \in Threads : startInOrderSetError(t)
    \/ \E t \in Threads : startInOrderEmit(t)
    \/ \E t \in Threads : waitForHealthy(t)
    \/ \E t \in Threads : startSingleState(t)
    \/ \E t \in Threads : Start(t)
    \/ \E t \in Threads : startSingleEmitRunning(t)
    \/ \E t \in Threads : monitorWait(t)
    \/ \E t \in Threads : monitorState(t)
    \/ \E t \in Threads : monitorSetFailed(t)
    \/ \E t \in Threads : monitorEmitFailed(t)
    \/ \E t \in Threads : cascadeFailureState(t)
    \/ \E t \in Threads : cascadeFailureOldStatus(t)
    \/ \E t \in Threads : cascadeFailureSetStatus(t)
    \/ \E t \in Threads : cascadeFailureSetError(t)
    \/ \E t \in Threads : cascadeFailureEmit(t)
    \/ \E t \in Threads : stopSingleState(t)
    \/ \E t \in Threads : Stop(t)
    \/ \E t \in Threads : stopSingleDone(t)
    \/ \E t \in Threads : stopSingleEmit(t)
    \/ \E w \in 1..MaxSessions : waitForExit(w)
    \/ Tick

SpecDepFailed == InitWith({FailingChain}) /\ [][NextDepFailed]_vars

\* Every goroutine that can take a step eventually does, and every child that
\* can exit eventually exits.
FairSpec == Spec /\ WF_vars(Next)

----------------------------------------------------------------------------
\* Start sequences over healthy catalogs: the user starts processes, groups and
\* stacks and stops processes, one request after another.
InitStart == InitWith({Chain, Vee})

NextStart ==
    \/ \E name \in DOMAIN config.Processes : StartProcess(User, name)
    \/ \E groupName \in DOMAIN config.Groups : StartGroup(User, groupName)
    \/ \E stackName \in DOMAIN config.Stacks : StartStack(User, stackName)
    \/ \E name \in DOMAIN config.Processes : StopProcess(User, name)
    \/ \E t \in Threads : startInOrderLoop(t)
    \/ \E t \in Threads : startInOrderCheckDep(t)
    \/ \E t \in Threads : waitForHealthy(t)
    \/ \E t \in Threads : startSingleState(t)
    \/ \E t \in Threads : Start(t)
    \/ \E t \in Threads : startSingleEmitRunning(t)
    \/ \E t \in Threads : monitorWait(t)
    \/ \E t \in Threads : monitorState(t)
    \/ \E t \in Threads : StopProcessDependent(t)
    \/ \E t \in Threads : stopSingleState(t)
    \/ \E t \in Threads : Stop(t)
    \/ \E t \in Threads : stopSingleDone(t)
    \/ \E t \in Threads : stopSingleEmit(t)
    \/ \E w \in 1..MaxSessions : waitForExit(w)
    \/ Tick

SpecStart == InitStart /\ [][NextStart]_vars

----------------------------------------------------------------------------
\* Stop requests: the user starts and stops processes of the chain and of a
\* catalog whose only process fails and is retried.
InitStop == InitWith({Chain, Failing(1)})

NextStop ==
    \/ \E name \in DOMAIN config.Processes : StartProcess(User, name)
    \/ \E name \in DOMAIN config.Processes : StopProcess(User, name)
    \/ \E t \in Threads : startInOrderLoop(t)
    \/ \E t \in Threads : startInOrderCheckDep(t)
    \/ \E t \in Threads : waitForHealthy(t)
    \/ \E t \in Threads : startSingleState(t)
    \/ \E t \in Threads : Start(t)
    \/ \E t \in Threads : startSingleEmitRunning(t)
    \/ \E t \in Threads : startSingleEmitFailed(t)
    \/ \E t \in Threads : monitorWait(t)
    \/ \E t \in Threads : monitorState(t)
    \/ \E t \in Threads : monitorSetRetrying(t)
    \/ \E t \in Threads : monitorSetRetryState(t)
    \/ \E t \in Threads : monitorEmitRetrying(t)
    \/ \E t \in Threads : monitorBackoffElapsed(t)
    \/ \E t \in Threads : monitorSetFailed(t)
    \/ \E t \in Threads : monitorEmitFailed(t)
    \/ \E t \in Threads : StopProcessDependent(t)
    \/ \E t \in Threads : stopSingleState(t)
    \/ \E t \in Threads : stopSingleSetStopped(t)
    \/ \E t \in Threads : Stop(t)
    \/ \E t \in Threads : stopSingleDone(t)
    \/ \E t \in Threads : stopSingleEmit(t)
    \/ \E w \in 1..MaxSessions : waitForExit(w)
    \/ Tick

SpecStop == InitStop /\ [][NextStop]_vars

----------------------------------------------------------------------------
\* Restart requests: the user starts a process and then restarts one.
InitRestart == InitWith({Chain, Failing(1)})

NextRestart ==
    \/ \E name \in DOMAIN config.Processes : ops = 0 /\ StartProcess(User, name)
    \/ \E name \in DOMAIN config.Processes : ops > 0 /\ RestartProcess(User, name)
    \/ \E t \in Threads : startInOrderLoop(t)
    \/ \E t \in Threads : startInOrderCheckDep(t)
    \/ \E t \in Threads : waitForHealthy(t)
    \/ \E t \in Threads : startSingleState(t)
    \/ \E t \in Threads : Start(t)
    \/ \E t \in Threads : startSingleEmitRunning(t)
    \/ \E t \in Threads : startSingleEmitFailed(t)
    \/ \E t \in Threads : monitorWait(t)
    \/ \E t \in Threads : monitorState(t)
    \/ \E t \in Threads : monitorSetRetrying(t)
    \/ \E t \in Threads : monitorSetRetryState(t)
    \/ \E t \in Threads : monitorEmitRetrying(t)
    \/ \E t \in Threads : monitorBackoffElapsed(t)
    \/ \E t \in Threads : monitorSetFailed(t)
    \/ \E t \in Threads : monitorEmitFailed(t)
    \/ \E t \in Threads : RestartProcessSnapshot(t)
    \/ \E t \in Threads : RestartProcessReset(t)
    \/ \E t \in Threads : StopProcessDependent(t)
    \/ \E t \in Threads : stopSingleState(t)
    \/ \E t \in Threads : stopSingleSetStopped(t)
    \/ \E t \in Threads : Stop(t)
    \/ \E t \in Threads : stopSingleDone(t)
    \/ \E t \in Threads : stopSingleEmit(t)
    \/ \E w \in 1..MaxSessions : waitForExit(w)
    \/ Tick

SpecRestart == InitRestart /\ [][NextRestart]_vars

\* B depends on A; B exits non-zero on its own and is not retried.
Duo ==
    [Processes |-> [A |-> Process("sleep", <<>>, FALSE, 0),
                    B |-> Process("exit1", <<"A">>, FALSE, 0)],
     Groups |-> NoGroups, Stacks |-> NoGroups]

\* Restart requests while a dependent fails on its own: the user starts a process
\* and then restarts one.
NextRestartOnce ==
    \/ \E name \in DOMAIN config.Processes : ops = 0 /\ StartProcess(User, name)
    \/ \E name \in DOMAIN config.Processes : ops = 1 /\ RestartProcess(User, name)
    \/ \E t \in Threads : startInOrderLoop(t)
    \/ \E t \in Threads : startInOrderCheckDep(t)
    \/ \E t \in Threads : waitForHealthy(t)
    \/ \E t \in Threads : startSingleState(t)
    \/ \E t \in Threads : Start(t)
    \/ \E t \in Threads : startSingleEmitRunning(t)
    \/ \E t \in Threads : startSingleEmitFailed(t)
    \/ \E t \in Threads : monitorWait(t)
    \/ \E t \in Threads : monitorState(t)
    \/ \E t \in Threads : monitorSetRetrying(t)
    \/ \E t \in Threads : monitorSetRetryState(t)
    \/ \E t \in Threads : monitorEmitRetrying(t)
    \/ \E t \in Threads : monitorBackoffElapsed(t)
    \/ \E t \in Threads : monitorSetFailed(t)
    \/ \E t \in Threads : monitorEmitFailed(t)
    \/ \E t \in Threads : RestartProcessSnapshot(t)
    \/ \E t \in Threads : RestartProcessReset(t)
    \/ \E t \in Threads : StopProcessDependent(t)
    \/ \E t \in Threads : stopSingleState(t)
    \/ \E t \in Threads : stopSingleSetStopped(t)
    \/ \E t \in Threads : Stop(t)
    \/ \E t \in Threads : stopSingleDone(t)
    \/ \E t \in Threads : stopSingleEmit(t)
    \/ \E w \in 1..MaxSessions : waitForExit(w)
    \/ Tick

SpecRestartDeps == InitWith({Duo, Failing(1)}) /\ [][NextRestartOnce]_vars

----------------------------------------------------------------------------
\* Retries under intervention: the user starts a failing process and then stops
\* it or shuts the manager down, at any moment of the monitor's retry handling.
NextBackoff ==
    \/ \E name \in DOMAIN config.Processes : ops = 0 /\ StartProcess(User, name)
    \/ \E name \in DOMAIN config.Processes : ops = 1 /\ StopProcess(User, name)
    \/ ops = 1 /\ Shutdown(User)
    \/ \E t \in Threads : startInOrderLoop(t)
    \/ \E t \in Threads : startInOrderCheckDep(t)
    \/ \E t \in Threads : startSingleState(t)
    \/ \E t \in Threads : Start(t)
    \/ \E t \in Threads : startSingleEmitRunning(t)
    \/ \E t \in Threads : monitorWait(t)
    \/ \E t \in Threads : monitorState(t)
    \/ \E t \in Threads : monitorSetRetrying(t)
    \/ \E t \in Threads : monitorSetRetryState(t)
    \/ \E t \in Threads : monitorEmitRetrying(t)
    \/ \E t \in Threads : monitorBackoffElapsed(t)
    \/ \E t \in Threads : monitorBackoffCancelled(t)
    \/ \E t \in Threads : monitorSetFailed(t)
    \/ \E t \in Threads : monitorEmitFailed(t)
    \/ \E t \in Threads : ShutdownCancel(t)
    \/ \E t \in Threads : StopAllSnapshot(t)
    \/ \E t \in Threads : StopAllNext(t)
    \/ \E t \in Threads : stopSingleState(t)
    \/ \E t \in Threads : stopSingleSetStopped(t)
    \/ \E t \in Threads : Stop(t)
    \/ \E t \in Threads : stopSingleDone(t)
    \/ \E t \in Threads : stopSingleEmit(t)
    \/ \E w \in 1..MaxSessions : waitForExit(w)

SpecBackoff == InitWith({Failing(1), Failing(2)}) /\ [][NextBackoff]_vars

----------------------------------------------------------------------------
\* Overlapping stops: the user starts B, which depends on the failing A, and
\* then stops a process while the failure cascade of A stops B.
NextOverlap ==
    \/ ops = 0 /\ StartProcess(User, "B")
    \/ \E name \in DOMAIN config.Processes : ops = 1 /\ StopProcess(User, name)
    \/ \E t \in Threads : startInOrderLoop(t)
    \/ \E t \in Threads : startInOrderCheckDep(t)
    \/ \E t \in Threads : startInOrderSetStatus(t)
    \/ \E t \in Threads : startInOrderSetError(t)
    \/ \E t \in Threads : startInOrderEmit(t)
    \/ \E t \in Threads : waitForHealthy(t)
    \/ \E t \in Threads : startSingleState(t)
    \/ \E t \in Threads : Start(t)
    \/ \E t \in Threads : startSingleEmitRunning(t)
    \/ \E t \in Threads : monitorWait(t)
    \/ \E t \in Threads : monitorState(t)
    \/ \E t \in Threads : monitorSetFailed(t)
    \/ \E t \in Threads : monitorEmitFailed(t)
    \/ \E t \in Threads : cascadeFailureState(t)
    \/ \E t \in Threads : cascadeFailureOldStatus(t)
    \/ \E t \in Threads : cascadeFailureSetStatus(t)
    \/ \E t \in Threads : cascadeFailureSetError(t)
    \/ \E t \in Threads : cascadeFailureEmit(t)
    \/ \E t \in Threads : StopProcessDependent(t)
    \/ \E t \in Threads : stopSingleState(t)
    \/ \E t \in Threads : Stop(t)
    \/ \E t \in Threads : stopSingleDone(t)
    \/ \E t \in Threads : stopSingleEmit(t)
    \/ \E w \in 1..MaxSessions : waitForExit(w)
    \/ Tick

SpecOverlap == InitWith({Pair(FALSE, 0, "sleep", FALSE, 0)}) /\ [][NextOverlap]_vars

----------------------------------------------------------------------------
\* Repeated starts: the user starts a process that fails and is retried up to
\* two times, and starts it again.
NextStartTwice ==
    \/ StartProcess(User, "A")
    \/ \E t \in Threads : startInOrderLoop(t)
    \/ \E t \in Threads : startInOrderCheckDep(t)
    \/ \E t \in Threads : startSingleState(t)
    \/ \E t \in Threads : Start(t)
    \/ \E t \in Threads : startSingleEmitRunning(t)
    \/ \E t \in Threads : startSingleEmitFailed(t)
    \/ \E t \in Threads : monitorWait(t)
    \/ \E t \in Threads : monitorState(t)
    \/ \E t \in Threads : monitorSetRetrying(t)
    \/ \E t \in Threads : monitorSetRetryState(t)
    \/ \E t \in Threads : monitorEmitRetrying(t)
    \/ \E t \in Threads : monitorBackoffElapsed(t)
    \/ \E t \in Threads : monitorSetFailed(t)
    \/ \E t \in Threads : monitorEmitFailed(t)
    \/ \E w \in 1..MaxSessions : waitForExit(w)

SpecStartTwice == InitWith({Failing(2)}) /\ [][NextStartTwice]_vars

----------------------------------------------------------------------------
\* Shutdown: the user starts processes and shuts the manager down.
InitShutdown == InitWith({Chain, Failing(1)})

NextShutdown ==
    \/ \E name \in DOMAIN config.Processes : StartProcess(User, name)
    \/ Shutdown(User)
    \/ \E t \in Threads : startInOrderLoop(t)
    \/ \E t \in Threads : startInOrderCheckDep(t)
    \/ \E t \in Threads : waitForHealthy(t)
    \/ \E t \in Threads : startSingleState(t)
    \/ \E t \in Threads : Start(t)
    \/ \E t \in Threads : startSingleEmitRunning(t)
    \/ \E t \in Threads : monitorWait(t)
    \/ \E t \in Threads : monitorState(t)
    \/ \E t \in Threads : monitorSetRetrying(t)
    \/ \E t \in Threads : monitorSetRetryState(t)
    \/ \E t \in Threads : monitorEmitRetrying(t)
    \/ \E t \in Threads : monitorBackoffElapsed(t)
    \/ \E t \in Threads : monitorBackoffCancelled(t)
    \/ \E t \in Threads : monitorSetFailed(t)
    \/ \E t \in Threads : monitorEmitFailed(t)
    \/ \E t \in Threads : ShutdownCancel(t)
    \/ \E t \in Threads : StopAllSnapshot(t)
    \/ \E t \in Threads : StopAllNext(t)
    \/ \E t \in Threads : stopSingleState(t)
    \/ \E t \in Threads : stopSingleSetStopped(t)
    \/ \E t \in Threads : Stop(t)
    \/ \E t \in Threads : stopSingleDone(t)
    \/ \E t \in Threads : stopSingleEmit(t)
    \/ \E w \in 1..MaxSessions : waitForExit(w)
    \/ Tick

SpecShutdown == InitShutdown /\ [][NextShutdown]_vars

----------------------------------------------------------------------------
\* Start and stop requests over the chain and over a catalog in which the
\* dependency is a job that finishes on its own.
InitOneshot == InitWith({Chain, Oneshot})

SpecOneshot == InitOneshot /\ [][NextStart]_vars

----------------------------------------------------------------------------
\* Two start requests, over the chain and over the process that fails and is
\* retried: the second request may find its process Running, or race with the
\* restart by the monitor.
NextStartAgain ==
    \/ \E name \in DOMAIN config.Processes : ops < 2 /\ StartProcess(User, name)
    \/ \E t \in Threads : startInOrderLoop(t)
    \/ \E t \in Threads : startInOrderCheckDep(t)
    \/ \E t \in Threads : waitForHealthy(t)
    \/ \E t \in Threads : startSingleState(t)
    \/ \E t \in Threads : Start(t)
    \/ \E t \in Threads : startSingleEmitRunning(t)
    \/ \E t \in Threads : startSingleEmitFailed(t)
    \/ \E t \in Threads : monitorWait(t)
    \/ \E t \in Threads : monitorState(t)
    \/ \E t \in Threads : monitorSetRetrying(t)
    \/ \E t \in Threads : monitorSetRetryState(t)
    \/ \E t \in Threads : monitorEmitRetrying(t)
    \/ \E t \in Threads : monitorBackoffElapsed(t)
    \/ \E t \in Threads : monitorSetFailed(t)
    \/ \E t \in Threads : monitorEmitFailed(t)
    \/ \E w \in 1..MaxSessions : waitForExit(w)
    \/ Tick

SpecStartAgain == InitStop /\ [][NextStartAgain]_vars

----------------------------------------------------------------------------
\* Child exits of every kind after one start request: a job that exits 0, a
\* process that exits non-zero (retried or not), and a dependent that the
\* cascade stops with a signal.
InitExit ==
    InitWith({Oneshot, Failing(1),
              Pair(FALSE, 0, "sleep", FALSE, 0),
              Pair(FALSE, 0, "exit1", TRUE, 1)})

SpecExit == InitExit /\ [][Next]_vars

----------------------------------------------------------------------------
\* Requests by name over the chain, the name being a process of the catalog or
\* one that is not.
NextUnknown ==
    \/ \E name \in DOMAIN config.Processes \cup {"ghost"} : StartProcess(User, name)
    \/ \E name \in DOMAIN config.Processes \cup {"ghost"} : StopProcess(User, name)
    \/ \E name \in DOMAIN config.Processes \cup {"ghost"} : RestartProcess(User, name)
    \/ \E t \in Threads : startInOrderLoop(t)
    \/ \E t \in Threads : startInOrderCheckDep(t)
    \/ \E t \in Threads : waitForHealthy(t)
    \/ \E t \in Threads : startSingleState(t)
    \/ \E t \in Threads : Start(t)
    \/ \E t \in Threads : startSingleEmitRunning(t)
    \/ \E t \in Threads : monitorWait(t)
    \/ \E t \in Threads : monitorState(t)
    \/ \E t \in Threads : RestartProcessSnapshot(t)
    \/ \E t \in Threads : RestartProcessReset(t)
    \/ \E t \in Threads : StopProcessDependent(t)
    \/ \E t \in Threads : stopSingleState(t)
    \/ \E t \in Threads : Stop(t)
    \/ \E t \in Threads : stopSingleDone(t)
    \/ \E t \in Threads : stopSingleEmit(t)
    \/ \E w \in 1..MaxSessions : waitForExit(w)
    \/ Tick

SpecUnknown == InitWith({Chain}) /\ [][NextUnknown]_vars

----------------------------------------------------------------------------
\* The dependency graph on its own: a graph is built from a catalog and one of
\* its functions, or NewProcessManager, is called on it.  op records the call
\* (kind, argument and, in log, the slice returned) and ret the error.
InitGraph ==
    /\ config \in GraphCatalogs
    /\ \E iter \in SeqsOf(DOMAIN config.Processes) : graph = NewDependencyGraph(config, iter)
    /\ state = <<>> /\ sinceStarted = <<>> /\ cmd = <<>> /\ done = <<>>
    /\ sessions = <<>>
    /\ stack = [t \in Threads |-> <<>>]
    /\ ret = [t \in Users |-> "nil"]
    /\ events = <<>>
    /\ cancelled = FALSE
    /\ op = [u \in Users |-> [kind |-> "", name |-> "", log |-> <<>>]]
    /\ ops = 0
    /\ rb = <<>> /\ written = <<>>

\* The call of a graph function with argument arg returns the slice result and
\* the error err.
Called(kind, arg, result, err) ==
    /\ ops = 0
    /\ ops' = 1
    /\ op' = [op EXCEPT ![User] = [kind |-> kind, name |-> arg, log |-> result]]
    /\ ret' = [ret EXCEPT ![User] = err]
    /\ UNCHANGED <<rb, written, config, graph, state, sinceStarted, cmd, done, sessions, stack,
                   events, cancelled>>

CallValidate ==
    /\ ops = 0
    /\ \E queue \in ValidateQueues(graph) :
        Called("Validate", "", <<>>, Validate(graph, queue))

\* NewProcessManager (manager.go 37-62): no manager is returned when Validate fails.
CallNewProcessManager ==
    /\ ops = 0
    /\ \E queue \in ValidateQueues(graph) :
        Called("NewProcessManager", "", <<>>,
               IF Validate(graph, queue) # "nil" THEN "invalid dependency graph" ELSE "nil")

CallStartOrder(targets) ==
    /\ ops = 0
    /\ \E queue \in InitialQueues(graph, targets) :
        LET order == StartOrder(graph, targets, queue)
            err == StartOrderErr(graph, targets, order)
        IN Called("StartOrder", targets, IF err = "nil" THEN order ELSE <<>>, err)

CallDependents(name) == Called("Dependents", name, Dependents(graph, name), "nil")

CallDependencies(name) == Called("Dependencies", name, Dependencies(graph, name), "nil")

NextGraph ==
    \/ CallValidate
    \/ CallNewProcessManager
    \/ \E k \in 1..MaxTargets :
         \E targets \in [1..k -> DOMAIN config.Processes \cup {"ghost"}] :
           CallStartOrder(targets)
    \/ \E name \in DOMAIN config.Processes \cup {"ghost"} : CallDependents(name)
    \/ \E name \in DOMAIN config.Processes \cup {"ghost"} : CallDependencies(name)

SpecGraph == InitGraph /\ [][NextGraph]_vars

----------------------------------------------------------------------------
\* No one reads the events: the engine after one start request, over a manager
\* whose event channel is full, or one short of full, of the events that earlier
\* StopProcess calls on the stopped process A have sent.
Backlog(n) ==
    [i \in 1..n |-> [Name |-> "A", OldState |-> StatusStopped,
                     NewState |-> StatusStopped, Error |-> ""]]

InitEvents ==
    \E n \in {EventCap - 1, EventCap} :
        ManagerWith({Failing(1), Failing(2),
                     Pair(TRUE, 1, "sleep", FALSE, 0),
                     Pair(FALSE, 0, "sleep", FALSE, 0),
                     Pair(FALSE, 0, "sleep", TRUE, 1),
                     Pair(FALSE, 0, "exit1", TRUE, 1)}, Backlog(n))

SpecEvents == InitEvents /\ [][Next]_vars

----------------------------------------------------------------------------
(* logging.RingBuffer (part_011) *)

NewRingBuffer(size) ==
    [lines |-> [i \in 0..(size - 1) |-> ""], size |-> size, pos |-> 0, count |-> 0]

\* A write that counts every line, also beyond the capacity.
WriteStringCountAll(b, line) ==
    [b EXCEPT !.lines[b.pos] = line,
              !.pos = (b.pos + 1) % b.size,
              !.count = b.count + 1]

\* WriteString, the critical section of rb.mu.
WriteString(b, line) ==
    [b EXCEPT !.lines[b.pos] = line,
              !.pos = (b.pos + 1) % b.size,
              !.count = IF b.count < b.size THEN b.count + 1 ELSE b.count]

\* Lines(n): the last n lines, all of them if n <= 0 or n > count; nil if none.
Lines(b, n) ==
    LET m == IF n <= 0 \/ n > b.count THEN b.count ELSE n
        start == (b.pos - m + b.size) % b.size
    IN [i \in 1..m |-> b.lines[(start + i - 1) % b.size]]

All(b) == Lines(b, 0)

\* RingBuffer.Len
RingBufferLen(b) == b.count

\* The goroutines that write to the buffer concurrently, as in
\* TestRingBuffer_ConcurrentWrites; the j-th line of writer w is <<w, j>>.
Writers == {"w1", "w2"}

LinesOf(w) == SelectSeq(written, LAMBDA l : l[1] = w)

\* A buffer of some capacity, nothing written to it yet; no manager.
InitRing ==
    /\ rb \in {NewRingBuffer(size) : size \in 1..MaxSize}
    /\ written = <<>>
    /\ config = Catalog(<<>>)
    /\ graph = NewDependencyGraph(config, <<>>)
    /\ state = <<>> /\ sinceStarted = <<>> /\ cmd = <<>> /\ done = <<>>
    /\ sessions = <<>>
    /\ stack = [t \in Threads |-> <<>>]
    /\ ret = [t \in Users |-> "nil"]
    /\ events = <<>>
    /\ cancelled = FALSE
    /\ op = [u \in Users |-> [kind |-> "", name |-> 0, log |-> <<>>]]
    /\ ops = 0

\* Writer w writes its next line: one call of rb.WriteString.
CallWriteString(w) ==
    /\ Len(LinesOf(w)) < MaxLines
    /\ LET line == <<w, Len(LinesOf(w)) + 1>> IN
         /\ rb' = WriteString(rb, line)
         /\ written' = Append(written, line)
    /\ UNCHANGED <<config, graph, state, sinceStarted, cmd, done, sessions, stack, ret,
                   events, cancelled, op, ops>>

\* A reader calls rb.All(), concurrently with the writers; op records the slice
\* returned and the number of writes that had taken effect.
CallAll ==
    /\ op' = [op EXCEPT ![User] = [kind |-> "All", name |-> Len(written), log |-> All(rb)]]
    /\ UNCHANGED <<rb, written, config, graph, state, sinceStarted, cmd, done, sessions,
                   stack, ret, events, cancelled, ops>>

\* A reader calls rb.Len(); op records the count returned, as a one-element slice.
CallLen ==
    /\ op' = [op EXCEPT ![User] = [kind |-> "Len", name |-> Len(written),
                                    log |-> <<RingBufferLen(rb)>>]]
    /\ UNCHANGED <<rb, written, config, graph, state, sinceStarted, cmd, done, sessions,
                   stack, ret, events, cancelled, ops>>

NextRing ==
    \/ \E w \in Writers : CallWriteString(w)
    \/ CallAll
    \/ CallLen

SpecRing == InitRing /\ [][NextRing]_vars

----------------------------------------------------------------------------
(* The retry policy on its own (retry.go) *)

\* The retry policies that config.Validate accepts (initial_backoff > 0,
\* max_backoff >= initial_backoff, multiplier >= 1), enabled or not; durations
\* in nanoseconds.
RetryPolicies ==
    {cfg \in [Enabled : BOOLEAN, MaxAttempts : 0..MaxAttempt,
               InitialBackoff : {1, 10, 25}, MaxBackoff : {1, 10, 25, 100},
               BackoffMultiplier : {1, 2}] :
        cfg.MaxBackoff >= cfg.InitialBackoff}

\* A catalog with one process, of some retry policy; no manager.
InitRetry ==
    /\ \E cfg \in RetryPolicies :
         config = [Processes |-> [A |-> [Command |-> "exit1", DependsOn |-> <<>>, Retry |-> cfg]],
                   Groups |-> NoGroups, Stacks |-> NoGroups]
    /\ graph = NewDependencyGraph(config, <<"A">>)
    /\ state = <<>> /\ sinceStarted = <<>> /\ cmd = <<>> /\ done = <<>>
    /\ sessions = <<>>
    /\ stack = [t \in Threads |-> <<>>]
    /\ ret = [t \in Users |-> "nil"]
    /\ events = <<>>
    /\ cancelled = FALSE
    /\ op = [u \in Users |-> [kind |-> "", name |-> 0, log |-> <<>>]]
    /\ ops = 0
    /\ rb = <<>> /\ written = <<>>

\* shouldRetry(attempt, procCfg.Retry) is called; op records the attempt and,
\* as a one-element slice, the value returned.
CallShouldRetry(attempt) ==
    /\ ops = 0
    /\ ops' = 1
    /\ op' = [op EXCEPT ![User] =
                 [kind |-> "shouldRetry", name |-> attempt,
                  log |-> <<shouldRetry(attempt, config.Processes["A"].Retry)>>]]
    /\ UNCHANGED <<rb, written, config, graph, state, sinceStarted, cmd, done, sessions,
                   stack, ret, events, cancelled>>

\* nextBackoff(attempt, procCfg.Retry) is called and rand.Float64() returns
\* r / JitterSteps.
CallNextBackoff(attempt, r) ==
    /\ ops = 0
    /\ ops' = 1
    /\ op' = [op EXCEPT ![User] =
                 [kind |-> "nextBackoff", name |-> attempt,
                  log |-> <<nextBackoff(attempt, config.Processes["A"].Retry, r)>>]]
    /\ UNCHANGED <<rb, written, config, graph, state, sinceStarted, cmd, done, sessions,
                   stack, ret, events, cancelled>>

NextRetry ==
    \/ \E attempt \in 0..(MaxAttempt + 1) : CallShouldRetry(attempt)
    \/ \E attempt \in 0..(MaxAttempt + 1) : \E r \in 0..(JitterSteps - 1) :
         CallNextBackoff(attempt, r)

SpecRetry == InitRetry /\ [][NextRetry]_vars

----------------------------------------------------------------------------
(* Observations used by the properties *)

\* Process n has a child that was spawned and whose exit has not been recorded.
Live(n) == \E s \in 1..Len(sessions) : sessions[s].name = n /\ ~sessions[s].exited

\* The number of children spawned for process n so far.
Spawns(n) == Cardinality({s \in 1..Len(sessions) : sessions[s].name = n})

EventsOf(n) == SelectSeq(events, LAMBDA e : e.Name = n)

\* The user's last request was of kind kind and has returned.
Returned(kind) == op[User].kind = kind /\ stack[User] = <<>>

\* The step in which the user's request of kind kind returns.
Returns(kind) == op[User].kind = kind /\ stack[User] # <<>> /\ stack'[User] = <<>>

StartKinds == {"StartProcess", "StartGroup", "StartStack"}

\* The positions of the user's log at which p.Start() was invoked.
StartsOf(log) == {i \in 1..Len(log) : log[i].what = "Start"}

----------------------------------------------------------------------------
(* C1 *)

\* C1: in every start sequence (StartProcess, StartGroup, StartStack) the
\* processes are started one at a time, each at most once, in a topological
\* order of the dependency graph (a process is never started after one of its
\* transitive dependents), and Start is invoked on a process only after each of
\* its direct dependencies was observed, since the previous Start of the
\* sequence, Running with at least the 2 s health delay elapsed.
C1_StartAfterHealthyDependencies ==
    LET log == op[User].log IN
    op[User].kind \in StartKinds =>
      \A i \in StartsOf(log) :
        /\ \A j \in StartsOf(log) :
             j < i => /\ log[j].name # log[i].name
                      /\ log[j].name \notin Range(Dependents(graph, log[i].name))
        /\ \A d \in Range(config.Processes[log[i].name].DependsOn) :
             \E j \in 1..(i - 1) :
               /\ log[j].what = "Healthy" /\ log[j].name = d
               /\ log[j].status = StatusRunning
               /\ log[j].age >= DepHealthDelay
               /\ \A k \in j..(i - 1) : log[k].what = "Healthy"

\* A start sequence has returned without error after starting a process with
\* two direct dependencies, both started earlier in the same sequence.
C1_Witness ==
    /\ op[User].kind \in StartKinds
    /\ stack[User] = <<>>
    /\ ret[User] = "nil"
    /\ \E i \in StartsOf(op[User].log) :
         /\ Len(config.Processes[op[User].log[i].name].DependsOn) = 2
         /\ Cardinality(StartsOf(op[User].log)) = 3

----------------------------------------------------------------------------
(* C2 *)

\* C2: StopProcess(X) stops the active transitive dependents of X in
\* reverse-topological order (every dependent is stopped before any process it
\* depends on) and X last; on the chain it stops C, then B, then A.
C2_StopsDependentsFirst ==
    LET log == op[User].log IN
    op[User].kind = "StopProcess" =>
      \A i, j \in 1..Len(log) :
        (i < j /\ log[i].what = "Stop" /\ log[j].what = "Stop") =>
            log[j].name \notin Range(Dependents(graph, log[i].name))

----------------------------------------------------------------------------
(* C3 *)

\* C3: when RestartProcess(name) returns without error, and no child exited on
\* its own during the call, name is Running and its retry_count is 0.
C3_RestartResetsRetryCount ==
    [][(Returns("RestartProcess") /\ ret'[User] = "nil" /\ ~op'[User].selfExit)
         => /\ state'[op[User].name].Status = StatusRunning
            /\ state'[op[User].name].RetryCount = 0]_vars

----------------------------------------------------------------------------
(* C4 *)

\* C4: in every reachable state, a process has a live child if and only if its
\* status is Starting, Running or Stopping.
C4_LiveChildIffStatus ==
    \A n \in DOMAIN state :
        Live(n) <=> state[n].Status \in {StatusStarting, StatusRunning, StatusStopping}

----------------------------------------------------------------------------
(* C5 *)

\* The monitor of x found x failed and retry disabled or exhausted.
PermanentlyFailed(x) ==
    /\ x \in DOMAIN state
    /\ \E i \in 1..Len(events) : /\ events[i].Name = x
                                 /\ events[i].OldState = StatusFailed
                                 /\ events[i].NewState = StatusFailed

DependentsFailed(x) ==
    x \in DOMAIN state =>
    \A d \in Range(Dependents(graph, x)) :
        /\ ~Live(d)
        /\ state[d].Status = StatusFailed
        /\ state[d].LastError = DependencyFailedMsg(x)
        /\ \E i \in 1..Len(events) : /\ events[i].Name = d
                                     /\ events[i].NewState = StatusFailed
                                     /\ events[i].Error = DependencyFailedMsg(x)

\* C5: once X has failed with retry disabled or exhausted, eventually every
\* transitive dependent of X has no live child, status Failed, last_error
\* "dependency X failed", and a Failed event with that message was emitted.
C5_CascadeReachesDependents ==
    \A x \in ProcessNames : PermanentlyFailed(x) ~> DependentsFailed(x)

----------------------------------------------------------------------------
(* C6 *)

\* Process n always exits non-zero and is retried at most MaxAttempts > 0 times.
Retried(n) ==
    /\ n \in DOMAIN state
    /\ config.Processes[n].Command = "exit1"
    /\ config.Processes[n].Retry.Enabled
    /\ config.Processes[n].Retry.MaxAttempts > 0

RetryExhausted(n) ==
    /\ n \in DOMAIN state
    /\ Spawns(n) = 1 + config.Processes[n].Retry.MaxAttempts
    /\ ~Live(n)
    /\ state[n].Status = StatusFailed
    /\ EventsOf(n) # <<>>
    /\ EventsOf(n)[Len(EventsOf(n))].OldState = StatusFailed
    /\ EventsOf(n)[Len(EventsOf(n))].NewState = StatusFailed

\* C6 as stated, for every process: with no user operation after the initial
\* StartProcess, a process whose child always exits non-zero, with retry enabled
\* and max_attempts = m > 0, once spawned eventually is, and from then on
\* remains, spawned exactly 1 + m times, without a live child, Failed, its last
\* event being Failed -> Failed.  (The number of spawns never decreases, so it
\* never exceeds 1 + m either.)
C6_AsStated ==
    \A n \in ProcessNames : (Retried(n) /\ Spawns(n) > 0) ~> [](RetryExhausted(n))

\* C6: the same for a process that has no dependencies.
C6_SpawnedOnePlusMaxAttempts ==
    \A n \in ProcessNames :
        (Retried(n) /\ Spawns(n) > 0 /\ config.Processes[n].DependsOn = <<>>)
            ~> [](RetryExhausted(n))

\* The process with max_attempts = 2 was spawned three times and is terminally
\* Failed.
C6_Witness ==
    \E n \in DOMAIN state :
        /\ Retried(n) /\ config.Processes[n].DependsOn = <<>>
        /\ config.Processes[n].Retry.MaxAttempts = 2
        /\ RetryExhausted(n)
        /\ \A t \in Threads : stack[t] = <<>>

----------------------------------------------------------------------------
(* C7 *)

\* C7: once Shutdown has returned, no managed process has a live child (and so
\* none is spawned afterwards).
C7_NoChildAfterShutdown ==
    Returned("Shutdown") => \A n \in DOMAIN state : ~Live(n)

----------------------------------------------------------------------------
(* C8 *)

\* C8: the done channel of every child session is closed exactly once, when the
\* exit of that child is recorded by its own waitForExit: never twice, and never
\* by the waitForExit of another session.
C8_DoneClosedOncePerSession ==
    \A s \in 1..Len(sessions) :
        sessions[s].closed = IF sessions[s].waiter = "done" THEN 1 ELSE 0

----------------------------------------------------------------------------
(* C9 *)

\* C9: every monitor blocks on the done channel of the child session it was
\* spawned for, and takes its retry or terminal-failure decision on the state of
\* that session, never on the state of a later session of the same process.
C9_MonitorOwnSession ==
    \A m \in Monitors :
        \A i \in 1..Len(stack[m]) :
            stack[m][i].fn = "monitor" =>
                /\ stack[m][i].pc = "recv" => stack[m][i].n = m[2]
                /\ stack[m][i].seen # 0 => stack[m][i].seen = m[2]

----------------------------------------------------------------------------
(* C10 *)

\* The processes StopProcess(X) is to stop: X and its transitive dependents, those
\* of them that were Running, Starting or Retrying at the call.
ToStop ==
    {n \in {op[User].name} \cup Range(Dependents(graph, op[User].name)) :
        op[User].snap[n] \in ActiveStatuses}

\* C10: when StopProcess(X) returns, no child having exited on its own during
\* the call, each of X and its transitive dependents that was Running, Starting
\* or Retrying at the call has no live child and status Stopped (so is not
\* Retrying), and no Failed event was emitted for it during the call.
C10_StoppedOnReturn ==
    [][(Returns("StopProcess") /\ ~op'[User].selfExit)
         => \A n \in ToStop :
              /\ ~Live(n)'
              /\ state'[n].Status = StatusStopped
              /\ \A i \in (op[User].ev0 + 1)..Len(events') :
                   events'[i].Name = n => events'[i].NewState # StatusFailed]_vars

----------------------------------------------------------------------------
(* C11 *)

\* The targets of the user's start request: the process, the processes of the
\* group, or the processes of the groups of the stack.
StartTargets ==
    CASE op[User].kind = "StartProcess" -> <<op[User].name>>
      [] op[User].kind = "StartGroup" -> config.Groups[op[User].name].Processes
      [] op[User].kind = "StartStack" ->
             GroupTargets(config, config.Stacks[op[User].name].Groups)
      [] OTHER -> <<>>

\* Process n was spawned by the user's current request: p.Start() was invoked on
\* it while it was not Running.
SpawnedByCall(n, log) ==
    \E i \in StartsOf(log) : log[i].name = n /\ log[i].status # StatusRunning

\* C11: when StartProcess, StartGroup or StartStack returns no error, every
\* target and every transitive dependency of a target was spawned by the call
\* or was Running already at the call, and (the children of these catalogs
\* never exit on their own) all of them are Running at the return.
C11_AllRunningOnReturn ==
    [][((\E k \in StartKinds : Returns(k)) /\ ret'[User] = "nil")
         => \A n \in Required(graph, StartTargets) :
              /\ \/ op[User].snap[n] = StatusRunning
                 \/ SpawnedByCall(n, op'[User].log)
              /\ state'[n].Status = StatusRunning]_vars

\* A stack was started without error while one of its processes was Running
\* already: that one was skipped, the other two were spawned by the call.
C11_Witness ==
    /\ Returned("StartStack") /\ ret[User] = "nil"
    /\ \E n \in Required(graph, StartTargets) :
         /\ op[User].snap[n] = StatusRunning
         /\ ~SpawnedByCall(n, op[User].log)
    /\ Cardinality({n \in Required(graph, StartTargets) :
                       SpawnedByCall(n, op[User].log)}) = 2

----------------------------------------------------------------------------
(* C12 *)

\* The Stop steps of the user's log keep reverse dependency order: no process
\* is stopped after a process it (transitively) depends on.
StopsInReverseOrder(log) ==
    \A i, j \in 1..Len(log) :
        (i < j /\ log[i].what = "Stop" /\ log[j].what = "Stop") =>
            log[j].name \notin Range(Dependents(graph, log[i].name))

\* C12: StopAll (called by Shutdown) stops processes in reverse dependency
\* order, and when it returns no process that was Running, Starting, Retrying
\* or Stopping at the call has a live child or is Running.
C12_StopAllStopsEverything ==
    [][Returns("Shutdown")
         => /\ StopsInReverseOrder(op'[User].log)
            /\ \A n \in DOMAIN state :
                 op[User].snap[n] \in ActiveStatuses \cup {StatusStopping}
                    => ~Live(n)' /\ state'[n].Status # StatusRunning]_vars

----------------------------------------------------------------------------
(* C13 *)

\* Goroutine t is at a call of pm.emitEvent.
AtEmit(t) ==
    /\ ~Panicked
    /\ stack[t] # <<>>
    /\ <<Top(t).fn, Top(t).pc>> \in
          {<<"startSingle", "emitFailed">>, <<"startSingle", "emitRunning">>,
           <<"startInOrder", "emit">>, <<"monitor", "emitRetrying">>,
           <<"monitor", "emitFailed">>, <<"cascadeFailure", "emit">>,
           <<"stopSingle", "emit">>}

\* The step of goroutine t that is its call of pm.emitEvent.
EmitStep(t) ==
    \/ startSingleEmitFailed(t)
    \/ startSingleEmitRunning(t)
    \/ startInOrderEmit(t)
    \/ monitorEmitRetrying(t)
    \/ monitorEmitFailed(t)
    \/ cascadeFailureEmit(t)
    \/ stopSingleEmit(t)

\* C13: the event channel never holds more than 100 events; a goroutine at a
\* call of emitEvent can always take that step, whether the channel is full or
\* not (no one reads it); and the step, which moves the goroutine on, appends
\* one event when there is room and leaves the channel as it is when it is full.
C13_EmitNeverBlocks ==
    /\ [](Len(events) <= EventCap)
    /\ [](\A t \in Threads : AtEmit(t) => ENABLED EmitStep(t))
    /\ [][\A t \in Threads :
            (AtEmit(t) /\ stack'[t] # stack[t]) =>
                IF Len(events) < EventCap
                THEN /\ Len(events') = Len(events) + 1
                     /\ SubSeq(events', 1, Len(events)) = events
                     /\ events'[Len(events')].Name \in DOMAIN state
                ELSE events' = events]_vars

\* With the channel full from the start, so that every event was dropped, a
\* process was spawned, retried and has terminally failed, and its dependent was
\* failed by the cascade: every goroutine has finished.
C13_Witness ==
    /\ events = Backlog(EventCap)
    /\ \A t \in Threads : stack[t] = <<>>
    /\ "B" \in DOMAIN state
    /\ Spawns("A") = 2 /\ state["A"].Status = StatusFailed
    /\ state["B"].Status = StatusFailed
    /\ state["B"].LastError = DependencyFailedMsg("A")

----------------------------------------------------------------------------
(* C14 *)

\* C14: StopProcess(X) called while X is Stopped or Failed is a no-op: no step
\* of the call changes the state of any process or signals any child, and the
\* call returns no error.
C14_StopOfStoppedIsNoOp ==
    [][(/\ op[User].kind = "StopProcess"
        /\ stack[User] # <<>> /\ stack'[User] # stack[User]
        /\ op[User].snap[op[User].name] \in {StatusStopped, StatusFailed})
         => /\ state' = state
            /\ \A s \in 1..Len(sessions) : sessions'[s].signalled = sessions[s].signalled
            /\ stack'[User] = <<>> => ret'[User] = "nil"]_vars

----------------------------------------------------------------------------
(* C15 *)

\* C15: p.Start() applied to a process that is Running spawns no child, leaves
\* the state of every process unchanged and returns the "already running"
\* error; and a start sequence that reads its next process as Running skips it:
\* it changes nothing, invokes no Start, and goes on to the next process of the
\* order or, after the last one, returns no error.
C15_StartOfRunningIsNoOp ==
    [][\A t \in Threads :
         /\ (/\ At(t, "startSingle", "start")
             /\ state[Top(t).name].Status = StatusRunning
             /\ stack'[t] # stack[t])
              => /\ sessions' = sessions /\ cmd' = cmd /\ done' = done
                 /\ state' = state
                 /\ Head(stack'[t]).pc = "emitFailed"
                 /\ Head(stack'[t]).err = "already running"
         /\ (/\ At(t, "startInOrder", "loop")
             /\ ~cancelled
             /\ state[Head(Top(t).list)].Status = StatusRunning
             /\ stack'[t] # stack[t])
              => /\ sessions' = sessions /\ cmd' = cmd /\ done' = done
                 /\ state' = state
                 /\ op' = op
                 /\ IF Tail(Top(t).list) = <<>>
                    THEN stack'[t] = <<>> /\ ret'[t] = "nil"
                    ELSE /\ Head(stack'[t]).fn = "startInOrder"
                         /\ Head(stack'[t]).pc = "loop"
                         /\ Head(stack'[t]).list = Tail(Top(t).list)]_vars

\* p.Start() was refused on a Running process: the "already running" error was
\* reported, and the process is Running with the one child it had.
C15_Witness ==
    \E i \in 1..Len(events) :
        /\ events[i].Error = "already running"
        /\ state[events[i].Name].Status = StatusRunning
        /\ Cardinality({s \in 1..Len(sessions) :
                           sessions[s].name = events[i].Name /\ ~sessions[s].exited}) = 1

----------------------------------------------------------------------------
(* C16 *)

\* C16: when a waitForExit goroutine reaps a child (cmd.Wait() returns the exit
\* of a child not yet waited for), the status of the process becomes Stopped if
\* it was Stopping or the child exited with code 0 (and then exit_code is 0
\* unless the process was being stopped), and otherwise becomes Failed with a
\* non-empty last_error and exit_code a non-zero exit code of that child.
C16_ExitRecorded ==
    [][\A w \in 1..Len(sessions) :
         (/\ sessions[w].waiter = "pending"
          /\ sessions'[w].waiter = "done"
          /\ ~sessions[sessions'[w].wcmd].exited)
           => LET n == sessions[w].name
                  codes == {r.code : r \in WaitResults(sessions'[w].wcmd)}
              IN /\ state'[n].ExitCode \in codes
                 /\ IF state[n].Status = StatusStopping \/ state'[n].ExitCode = 0
                    THEN state'[n].Status = StatusStopped
                    ELSE /\ state'[n].Status = StatusFailed
                         /\ state'[n].LastError # ""]_vars

\* The dependency has exited 1 on its own and is Failed with that error and
\* exit_code 1, and its dependent, signalled while Stopping, was reaped as
\* Stopped with exit_code -1.
C16_Witness ==
    /\ "B" \in DOMAIN state
    /\ config.Processes["A"].Command = "exit1"
    /\ state["A"].Status = StatusFailed /\ state["A"].ExitCode = 1
    /\ state["A"].LastError = "exit status 1"
    /\ \E s \in 1..Len(sessions) :
         sessions[s].name = "B" /\ sessions[s].signalled /\ sessions[s].exited
    /\ state["B"].ExitCode = -1
    /\ state["B"].Status = StatusStopped

----------------------------------------------------------------------------
(* C17 *)

\* C17: no step of a StartProcess, StopProcess or RestartProcess called with a
\* name that is not a process of the catalog panics, spawns a child or changes
\* the state of a process, and the call returns an error.
C17_UnknownNameIsError ==
    [][(/\ op'[User].kind \in {"StartProcess", "StopProcess", "RestartProcess"}
        /\ op'[User].name \notin DOMAIN state
        /\ (ops' # ops \/ stack'[User] # stack[User]))
         => /\ ~Panicked'
            /\ sessions' = sessions
            /\ state' = state
            /\ stack'[User] = <<>> => ret'[User] # "nil"]_vars

----------------------------------------------------------------------------
(* Graph theory the graph properties are stated in *)

\* The dependency edges of the catalog: <<n, d>> when d is in depends_on of n.
Edges(cfg) ==
    UNION {{<<n, d>> : d \in Range(cfg.Processes[n].DependsOn)} : n \in DOMAIN cfg.Processes}

\* The nodes that a path of edges of E, the empty path included, leads to from
\* a node of S.
RECURSIVE Reach(_, _)
Reach(E, S) ==
    LET next == S \cup {e[2] : e \in {e \in E : e[1] \in S}}
    IN IF next = S THEN S ELSE Reach(E, next)

\* The nodes that a path of one or more edges of E leads to from a node of S.
After(E, S) == Reach(E, {e[2] : e \in {e \in E : e[1] \in S}})

HasCycle(cfg) == \E n \in DOMAIN cfg.Processes : n \in After(Edges(cfg), {n})

----------------------------------------------------------------------------
(* C18 *)

\* C18: Validate returns the cycle error if and only if the dependency graph
\* contains a cycle (a self-dependency included), and NewProcessManager fails
\* whenever Validate fails, so it fails on every cyclic graph.
C18_ValidateIffCycle ==
    /\ op[User].kind = "Validate" => (ret[User] # "nil" <=> HasCycle(config))
    /\ op[User].kind = "NewProcessManager" =>
         /\ (\E queue \in ValidateQueues(graph) : Validate(graph, queue) # "nil")
               => ret[User] # "nil"
         /\ HasCycle(config) => ret[User] # "nil"

----------------------------------------------------------------------------
(* C19 *)

\* C19: for every acyclic catalog and every list of known targets T (duplicates
\* allowed), StartOrder(T) returns without error exactly the closure of T under
\* the dependency edges, each process once, every process after all of its
\* dependencies; on the diamond, StartOrder([D]) has A first and D last.
C19_StartOrderIsTopological ==
    LET T == op[User].name
        order == op[User].log
        closure == Reach(Edges(config), Range(T))
    IN (/\ op[User].kind = "StartOrder"
        /\ ~HasCycle(config)
        /\ Range(T) \subseteq DOMAIN config.Processes)
       => /\ ret[User] = "nil"
          /\ Range(order) = closure
          /\ Len(order) = Cardinality(closure)
          /\ \A i \in 1..Len(order) :
                \A d \in Range(Lookup(graph.forward, order[i])) :
                  \E j \in 1..(i - 1) : order[j] = d
          /\ (config = Diamond /\ T = <<"D">>)
                => (Len(order) = 4 /\ order[1] = "A" /\ order[4] = "D")

\* StartOrder([D]) on the diamond returned A, C, B, D.
C19_Witness ==
    /\ config = Diamond
    /\ op[User].kind = "StartOrder"
    /\ op[User].name = <<"D">>
    /\ ret[User] = "nil"
    /\ op[User].log = <<"A", "C", "B", "D">>

----------------------------------------------------------------------------
(* C20 *)

\* The slice that Dependents or Dependencies returned for x is the set of the
\* processes that one or more edges of E lead to from x, each once, and holds y
\* exactly when opposite[y], the slice of the opposite walk from y, holds x.
IsClosure(result, E, x, opposite) ==
    /\ Range(result) = After(E, {x})
    /\ Len(result) = Cardinality(Range(result))
    /\ \A y \in DOMAIN config.Processes \cup {"ghost"} :
          y \in Range(result) <=> x \in Range(opposite[y])

\* C20, as amended: Dependents(x) is exactly the transitive closure of x under
\* the reverse edges and Dependencies(x) exactly the transitive closure under
\* the forward edges, no process twice, and y is in Dependents(x) if and only if
\* x is in Dependencies(y); x itself is excluded exactly when no cycle of the
\* graph passes through x.
C20_TransitiveClosures ==
    LET x == op[User].name
        result == op[User].log
        forward == Edges(config)
        reverse == {<<e[2], e[1]>> : e \in forward}
        names == DOMAIN config.Processes \cup {"ghost"}
        Dependencies_ == [y \in names |-> Dependencies(graph, y)]
        Dependents_ == [y \in names |-> Dependents(graph, y)]
    IN /\ op[User].kind = "Dependents" => IsClosure(result, reverse, x, Dependencies_)
       /\ op[User].kind = "Dependencies" => IsClosure(result, forward, x, Dependents_)
       /\ op[User].kind \in {"Dependents", "Dependencies"} =>
            (x \in Range(result) <=> x \in After(forward, {x}))

\* C20, as stated: Dependents(x) and Dependencies(x) are the transitive closures
\* of x under the reverse and the forward edges, x itself excluded and no
\* process twice, and y is in Dependents(x) if and only if x is in
\* Dependencies(y).
C20_AsStated ==
    LET x == op[User].name
        result == op[User].log
        forward == Edges(config)
        reverse == {<<e[2], e[1]>> : e \in forward}
        names == DOMAIN config.Processes \cup {"ghost"}
        Dependencies_ == [y \in names |-> Dependencies(graph, y)]
        Dependents_ == [y \in names |-> Dependents(graph, y)]
    IN /\ op[User].kind = "Dependents" =>
            (IsClosure(result, reverse, x, Dependencies_) /\ x \notin Range(result))
       /\ op[User].kind = "Dependencies" =>
            (IsClosure(result, forward, x, Dependents_) /\ x \notin Range(result))

\* Dependents(A) on the diamond returned its three transitive dependents, D
\* reached through B and through C and listed once.
C20_Witness ==
    /\ config = Diamond
    /\ op[User].kind = "Dependents"
    /\ op[User].name = "A"
    /\ Len(op[User].log) = 3
    /\ Range(op[User].log) = {"B", "C", "D"}

----------------------------------------------------------------------------
(* C21 *)

\* Process n is in a terminal Failed state: it has no child, its status is
\* Failed, an error is recorded, and the last event about it reported a
\* transition to Failed (by its monitor when retry was off or exhausted, by a
\* cascade, or by an aborted start).
TerminalFailed(n) ==
    /\ ~Live(n)
    /\ state[n].Status = StatusFailed
    /\ state[n].LastError # ""
    /\ EventsOf(n) # <<>>
    /\ EventsOf(n)[Len(EventsOf(n))].NewState = StatusFailed

\* C21: once a process is in a terminal Failed state, no step changes its
\* last_error (not a stop request, a cascade from another process or a failed
\* start attempt) other than a successful Start of that process, which clears it.
C21_LastErrorKept ==
    [][\A n \in DOMAIN state :
          (TerminalFailed(n) /\ state'[n].LastError # state[n].LastError)
              => (state'[n].Status = StatusRunning /\ state'[n].LastError = "")]_vars

----------------------------------------------------------------------------
(* C22 *)

\* The last min(k, c) of the first k lines written.
LastWritten(k, c) == SubSeq(written, k - Min(k, c) + 1, k)

\* C22: after k line writes into a ring buffer of capacity c, by any number of
\* concurrent writers, All() returns exactly the last min(k, c) written lines in
\* the order the writes took effect, each line as it was written, and Len()
\* returns min(k, c).
C22_RingBufferKeepsLast ==
    LET k == op[User].name
        c == rb.size
    IN /\ op[User].kind = "All" => op[User].log = LastWritten(k, c)
       /\ op[User].kind = "Len" => op[User].log = <<Min(k, c)>>

\* Both writers have written all their lines, more lines than the buffer holds,
\* in interleaved order, and All() returned the last c of them, lines of both
\* writers among them, from a buffer that has wrapped around.
C22_Witness ==
    /\ op[User].kind = "All"
    /\ op[User].name = MaxLines * Cardinality(Writers)
    /\ rb.size = 3
    /\ op[User].name > rb.size
    /\ Len(op[User].log) = rb.size
    /\ {l[1] : l \in Range(op[User].log)} = Writers
    /\ written[1][1] # written[2][1]

----------------------------------------------------------------------------
(* C23 *)

\* C23: shouldRetry(n, policy) is false whenever the policy is disabled, true
\* for every n when the policy is enabled with max_attempts = 0, and otherwise
\* true if and only if n < max_attempts.
C23_ShouldRetry ==
    LET n == op[User].name
        policy == config.Processes["A"].Retry
        result == op[User].log[1]
    IN op[User].kind = "shouldRetry" =>
         /\ ~policy.Enabled => ~result
         /\ (policy.Enabled /\ policy.MaxAttempts = 0) => result
         /\ (policy.Enabled /\ policy.MaxAttempts # 0) => (result <=> n < policy.MaxAttempts)

\* shouldRetry returned true for an attempt beyond every finite limit of the
\* model, the policy being enabled with max_attempts = 0.
C23_Witness ==
    /\ op[User].kind = "shouldRetry"
    /\ config.Processes["A"].Retry.Enabled
    /\ config.Processes["A"].Retry.MaxAttempts = 0
    /\ op[User].name = MaxAttempt + 1
    /\ op[User].log = <<TRUE>>

----------------------------------------------------------------------------
(* C24 *)

\* C24: for every attempt n >= 0 and every valid policy, nextBackoff(n, policy)
\* lies in [0.9 * cap, 1.1 * cap], cap = min(initial * multiplier^n, max_backoff),
\* and is strictly positive.
C24_BackoffWithinJitter ==
    LET n == op[User].name
        policy == config.Processes["A"].Retry
        result == op[User].log[1]
        cap == Min(policy.InitialBackoff * Pow(policy.BackoffMultiplier, n), policy.MaxBackoff)
    IN op[User].kind = "nextBackoff" =>
         /\ 9 * cap <= 10 * result
         /\ 10 * result <= 11 * cap
         /\ result > 0

----------------------------------------------------------------------------
(* C25 *)

\* The user's RestartProcess call spawns a child of n in this step.
RestartSpawns(n) ==
    /\ op[User].kind = "RestartProcess"
    /\ At(User, "startSingle", "start")
    /\ Top(User).name = n
    /\ stack'[User] # <<>> /\ Head(stack'[User]).pc = "emitRunning"

\* C25: RestartProcess invokes Start on the target and on each restarted
\* dependent only when the direct dependencies of that process are Running and
\* healthy (Running for at least the health delay).
C25_RestartAfterHealthyDependencies ==
    [][\A n \in DOMAIN state :
         RestartSpawns(n) =>
           \A d \in Range(config.Processes[n].DependsOn) :
             Healthy(state[d].Status, sinceStarted[d])]_vars

----------------------------------------------------------------------------
(* C26 *)

\* The transitive dependents of the restarted process that were Running,
\* Starting, Failed or Retrying when the call began.
RestartDeps ==
    {d \in Range(Dependents(graph, op[User].name)) :
        op[User].snap[d] \in {StatusRunning, StatusStarting, StatusFailed, StatusRetrying}}

\* The processes on which the user's request invoked p.Start() or p.Stop().
StartedByCall(log) == {log[i].name : i \in StartsOf(log)}
TouchedByCall(log) == {log[i].name : i \in 1..Len(log)}

\* The user's RestartProcess call resets the retry count of dependent d and
\* calls startSingle(d) in this step.
RestartResets(d) ==
    /\ At(User, "RestartProcess", "reset")
    /\ Head(Top(User).list) = d
    /\ stack'[User] # stack[User]

----------------------------------------------------------------------------
(* C27 *)

\* Monitor t takes a step from the position pc of monitor().
MonitorStep(t, pc) == At(t, "monitor", pc) /\ stack'[t] # stack[t]

----------------------------------------------------------------------------
(* C28 *)

\* The child of session s was stopped on request or exited with status 0, so
\* that waitForExit recorded the end of the session as Stopped.
EndedStopped(s) ==
    /\ sessions[s].exited
    /\ \/ sessions[s].signalled
       \/ config.Processes[sessions[s].name].Command = "exit0"

\* C28: the monitor of a child session that ended in Stopped returns when it
\* has received from the session's done channel: it sets no Retrying status,
\* respawns nothing, emits no terminal-failure event and starts no cascade.
C28_StoppedSessionNotRetried ==
    [][\A m \in Monitors :
         (MonitorStep(m, "recv") /\ Top(m).n = m[2] /\ EndedStopped(m[2]))
           => stack'[m] = <<>>]_vars

----------------------------------------------------------------------------
(* C29 *)

\* C29: in a start sequence, when the check of the transitive dependencies of
\* the next process P reads a dependency X as Failed, the sequence takes the
\* failure path with the message "dependency X failed"; and when it leaves that
\* path P is Failed, its last_error names a transitive dependency of P as
\* failed, the event of P to Failed with the message was just emitted, the
\* request returns an error, and neither P nor a later process of the order
\* was spawned by the request or has a child.
C29_FailedDependencyAbortsStart ==
    [][/\ (At(User, "startInOrder", "deps") /\ stack'[User] # stack[User]
             /\ Top(User).more # <<>>
             /\ state[Head(Top(User).more)].Status = StatusFailed)
            => /\ At(User, "startInOrder", "setStatus")'
               /\ Top(User)'.err = DependencyFailedMsg(Head(Top(User).more))
       /\ (\E pc \in {"setStatus", "setError", "emit"} : At(User, "startInOrder", pc))
            => \/ \E pc \in {"setStatus", "setError", "emit"} : At(User, "startInOrder", pc)'
               \/ LET P == Top(User).name
                      msg == Top(User).err
                  IN /\ stack'[User] = <<>>
                     /\ ret'[User] = "cannot start: " \o msg
                     /\ \E X \in Range(Dependencies(graph, P)) : msg = DependencyFailedMsg(X)
                     /\ state'[P].Status = StatusFailed
                     /\ \E X \in Range(Dependencies(graph, P)) :
                          state'[P].LastError = DependencyFailedMsg(X)
                     /\ events' = Append(events, [Name |-> P, OldState |-> Top(User).old,
                                                     NewState |-> StatusFailed, Error |-> msg])
                     /\ \A n \in Range(Top(User).list) :
                          ~SpawnedByCall(n, op'[User].log) /\ ~Live(n)']_vars

\* StartProcess("C") has returned an error on the chain: A was spawned and
\* failed, B was found to depend on the Failed A and set Failed, and neither B
\* nor C, the later process of the order, was spawned.
C29_Witness ==
    /\ Returned("StartProcess") /\ op[User].name = "C"
    /\ ret[User] = "cannot start: " \o DependencyFailedMsg("A")
    /\ SpawnedByCall("A", op[User].log)
    /\ state["B"].Status = StatusFailed /\ state["B"].LastError = DependencyFailedMsg("A")
    /\ Spawns("B") = 0 /\ Spawns("C") = 0

----------------------------------------------------------------------------
(* C30 *)

\* C30: when a start sequence is aborted in the wait for a direct dependency of
\* the target P, the request returns an error and has not spawned P; the status
\* of P is Failed if the wait found the dependency Failed, and is unchanged if
\* the wait timed out.
C30_AbortedWaitSetsStatus ==
    [][(At(User, "startInOrder", "wait") /\ stack'[User] = <<>> /\ ~cancelled)
         => LET P == Top(User).name
                dep == Head(Top(User).more)
            IN /\ ret'[User] # "nil"
               /\ ~SpawnedByCall(P, op'[User].log)
               /\ IF state[dep].Status = StatusFailed
                  THEN state'[P].Status = StatusFailed
                  ELSE state'[P].Status = state[P].Status]_vars

----------------------------------------------------------------------------
(* C31 *)

\* p.Stop(), called by thread t for process n, returns in this step: after the
\* receive from done when it found n Running, or at once when it found n
\* Stopping, a Stop call of another thread being under way.
StopReturns(t, n) ==
    /\ stack[t] # <<>> /\ Top(t).fn = "stopSingle" /\ Top(t).name = n
    /\ \/ At(t, "stopSingle", "done") /\ stack'[t] # stack[t]
       \/ /\ At(t, "stopSingle", "Stop") /\ state[n].Status = StatusStopping
          /\ stack'[t] # stack[t]

\* C31: every call of Stop on a process that was Running returns only after
\* the child has exited and its done channel is closed, the status being
\* Stopped at that point; this holds for each of several overlapping callers.
C31_StopReturnsAfterExit ==
    [][\A t \in Threads : \A n \in DOMAIN config.Processes :
         StopReturns(t, n) => ~Live(n)' /\ state'[n].Status = StatusStopped]_vars

----------------------------------------------------------------------------
(* C32 *)

\* The done channel of session s is closed in this step.
Closes(s) == s <= Len(sessions) /\ sessions'[s].closed > sessions[s].closed

EndStatuses == {StatusStopped, StatusFailed}

\* C32: in the step that closes the done channel of a session the status of
\* its process has been set to Stopped or Failed, and for as long as the closed
\* channel is the one the process holds, the status is none of Running,
\* Starting and Stopping.
C32_StatusSetBeforeDoneClosed ==
    /\ [][\A s \in 1..MaxSessions :
            Closes(s) => state'[sessions[s].name].Status \in EndStatuses]_vars
    /\ [](\A n \in DOMAIN state :
            (done[n] # 0 /\ sessions[done[n]].closed > 0)
              => state[n].Status \notin {StatusRunning, StatusStarting, StatusStopping})

\* A monitor woken by the close of its session's done channel is about to read
\* the state of its process.
C32_Witness ==
    \E m \in Monitors :
        /\ At(m, "monitor", "recv")
        /\ sessions[Top(m).n].closed > 0
        /\ done[Top(m).name] = Top(m).n

----------------------------------------------------------------------------
(* C33 *)

\* A step of the handling of a failure of process x: waitForExit recording the
\* exit of a child of x, p.Start() of x failing to spawn, or a step of the
\* monitor of a child of x, its cascadeFailure included.
FailureStep(x) ==
    \/ \E w \in 1..Len(sessions) :
          /\ sessions[w].name = x
          /\ sessions[w].waiter = "pending" /\ sessions'[w].waiter = "done"
    \/ \E t \in Threads :
          /\ At(t, "startSingle", "start") /\ Top(t).name = x
          /\ stack'[t] # stack[t] /\ Len(sessions') = Len(sessions)
    \/ \E m \in Monitors :
          /\ m[2] <= Len(sessions) /\ sessions[m[2]].name = x
          /\ stack[m] # <<>> /\ stack'[m] # stack[m]

\* The processes other than x that do not reach x along their depends_on edges.
Unrelated(x) ==
    {n \in DOMAIN state \ {x} : x \notin Range(Dependencies(graph, n))}

Untouched(n) ==
    /\ state'[n].Status = state[n].Status
    /\ state'[n].RetryCount = state[n].RetryCount
    /\ state'[n].LastError = state[n].LastError
    /\ \A s \in 1..Len(sessions) :
          sessions[s].name = n => sessions'[s].signalled = sessions[s].signalled

----------------------------------------------------------------------------
(* C34 *)

\* C34: the sequence a call of StartOrder returned is the sequence every call
\* of StartOrder with the same targets on the same graph returns.
C34_StartOrderDeterministic ==
    (op[User].kind = "StartOrder" /\ ret[User] = "nil")
      => \A queue \in InitialQueues(graph, op[User].name) :
            StartOrder(graph, op[User].name, queue) = op[User].log

----------------------------------------------------------------------------
(* C35 *)

\* C35: once StopProcess(name) has returned, and for as long as it is the
\* user's last request, no child of name is spawned.
C35_NoSpawnAfterStop ==
    [][\A n \in DOMAIN config.Processes :
         (op[User].kind = "StopProcess" /\ op[User].name = n /\ stack[User] = <<>>)
           => Spawns(n)' = Spawns(n)]_vars

----------------------------------------------------------------------------
(* C36 *)

\* The children of process n that have been spawned and have not exited.
Alive(n) == {s \in 1..Len(sessions) : sessions[s].name = n /\ ~sessions[s].exited}

\* C36: at most one child of a managed process is alive at any time.
C36_OneChildPerProcess ==
    \A n \in DOMAIN config.Processes : Cardinality(Alive(n)) <= 1

----------------------------------------------------------------------------
(* C37 *)

\* C37: with retry enabled and max_attempts = m > 0 the retry_count of a
\* process is at most m, and a step changes it only as a monitor's
\* SetRetryState, to its previous value plus one, or as the reset of
\* RestartProcess, to 0.
C37_RetryCountBounded ==
    /\ [](\A n \in DOMAIN state :
            (config.Processes[n].Retry.Enabled /\ config.Processes[n].Retry.MaxAttempts > 0)
              => state[n].RetryCount <= config.Processes[n].Retry.MaxAttempts)
    /\ [][\A n \in DOMAIN state :
            state'[n].RetryCount # state[n].RetryCount
              => \/ /\ \E m \in Monitors : MonitorStep(m, "setRetryState") /\ Top(m).name = n
                    /\ state'[n].RetryCount = state[n].RetryCount + 1
                 \/ /\ At(User, "RestartProcess", "reset")
                    /\ state'[n].RetryCount = 0]_vars

----------------------------------------------------------------------------
(* C38 *)

\* C38: when an event is emitted, its NewState is the status the process has.
C38_EventAgreesWithState ==
    [][Len(events') > Len(events)
         => \A n \in DOMAIN state :
               events'[Len(events')].Name = n
                 => state'[n].Status = events'[Len(events')].NewState]_vars

----------------------------------------------------------------------------
(* C39 *)

\* The start sequence of the user treats dependency d as failed in this step:
\* the dependency check goes on to mark the target Failed, or the wait for d
\* returns its error.
TreatsAsFailed(d) ==
    \/ /\ At(User, "startInOrder", "deps") /\ Top(User).more # <<>>
       /\ Head(Top(User).more) = d
       /\ At(User, "startInOrder", "setStatus")'
    \/ /\ At(User, "startInOrder", "wait") /\ Head(Top(User).more) = d
       /\ stack'[User] = <<>> /\ ret'[User] = "dependency is in failed state"

\* C39: a start sequence treats a dependency as failed only when the retries
\* of that dependency are disabled or exhausted.
C39_OnlyPermanentFailureAborts ==
    [][\A d \in DOMAIN state :
         TreatsAsFailed(d)
           => ~shouldRetry(state[d].RetryCount, config.Processes[d].Retry)]_vars

----------------------------------------------------------------------------
(* C40 *)

\* Process d is Failed with the last_error of a cascade from a dependency.
CascadeFailed(d) ==
    /\ state[d].Status = StatusFailed
    /\ \E x \in Range(Dependencies(graph, d)) : state[d].LastError = DependencyFailedMsg(x)

\* C40: a dependent that a cascade stopped and marked Failed stays Failed with
\* a last_error "dependency X failed" and is not spawned in any step other
\* than one of a user request; and its monitor, woken by the stop of its
\* child, reads the state and returns: it schedules no retry, spawns nothing
\* and starts no cascade.
C40_CascadeFailedStays ==
    [][/\ \A d \in DOMAIN state :
            (CascadeFailed(d) /\ stack'[User] = stack[User])
              => CascadeFailed(d)' /\ Spawns(d)' = Spawns(d)
       /\ \A m \in Monitors :
            (MonitorStep(m, "recv") /\ sessions[m[2]].signalled
               /\ \E x \in Range(Dependencies(graph, sessions[m[2]].name)) :
                     state[x].Status = StatusFailed)
              => stack'[m] = <<>>]_vars

====
